---- MODULE Spec2Model ----
(***************************************************************************)
(* Persistent topological naming in Part::Feature (PartFeature.cpp):       *)
(* element history walk, source-lineage trace, combo-name synthesis and    *)
(* decoding, and the correspondence search.                                *)
(*                                                                         *)
(* The geometry kernel and the element map of TopoShape are external to    *)
(* the sources at hand; they appear here as oracles whose answers are      *)
(* drawn from small sets and, where the code may ask twice, remembered.    *)
(***************************************************************************)
EXTENDS Integers, Sequences, FiniteSets, TLC

VARIABLES
    \* ---- Feature::getElementHistory ----
    h_pc,          \* "loop" while the do/while runs, "done" after return
    h_feature,     \* local `feature` (object id, 0 = nullptr)
    h_element,     \* local `element`
    h_prev,        \* local `prevElement`
    h_ret,         \* local `ret`, the list of HistoryItem
    h_recursive,   \* argument `recursive`
    h_sameType,    \* argument `sameType`
    h_start,       \* the element the call started from
    h_lost,        \* local `tag` of the step at which the producer was missing
    h_seen,        \* the loop-head states the walk has been in
    \* ---- getElementSource ----
    s_pc,          \* "loop" while the while(1) runs, "done" after return
    s_owner,       \* local `owner` (object id, 0 = nullptr)
    s_shape,       \* the object whose shape `shape` holds (0 = null shape)
    s_ret,         \* local `ret`, the list of (tag, name)
    s_tagSet,      \* local `tagSet`, the visited (document, tag) pairs
    s_type,        \* argument `type` ("0" = any)
    s_seen,        \* the loop-head states the trace has been in
    \* ---- Feature::getExportElementName ----
    c_pc,          \* "ready", or "crashed" after an out-of-range read went wrong
    c_lower,       \* the shape: its lower elements (edges/faces) in index order
    c_kind,        \* the kind of the elements the calls ask for
    c_rev,         \* element map: higher element -> its stored combo name
    c_res,         \* what the last call returned
    \* ---- Feature::getElementFromSource ----
    f_pc,          \* "entry", "shortcut", "search", "scan", "done", "threw", "crashed"
    f_in,          \* the arguments and what the shapes and resolveElement gave
    f_res,         \* res
    f_tagChanges,  \* tagChanges
    f_i,           \* i of the scan loop
    f_steps,       \* callbacks made by the running traceElement
    f_search,      \* calls of searchSubShape
    f_scans,       \* traces started by the scan loop
    \* ---- the element maps (external), as far as they have been asked ----
    emap,          \* (shape, name) -> generation record
    imap,          \* (shape, name) -> indexed name (0 = none)
    \* ---- Feature::getRelatedElements ----
    r_in,          \* the shape of the object: its elements and their origins
    r_cache,       \* the related-elements cache of the shape's element map
    r_res,         \* the last call: its arguments, ret, and what it traced
    \* ---- _getTopoShape and the shape cache ----
    t_in,          \* the queried object, its sub-object and the call context
    t_cache,       \* PropertyShapeCache: (object, subname) -> shape
    t_res,         \* the last call: its arguments, the shape returned, the writes
    \* ---- Gui::SelectionSingleton (Selection.cpp) ----
    g_sel,         \* _SelList, the selection entries in order
    g_gate,        \* ActiveGate with gateResolve (NoGate = null)
    g_pre,         \* DocName, FeatName, SubName of the preselection
    g_cur,         \* CurrentPreselection
    g_res,         \* the last call: its name, arguments and result
    \* ---- the element-snapshot cache of Part::Feature ----
    e_registry,    \* _elementCachePrefixMap, (prefix, property) in order
    e_cache,       \* _elementCache: key -> (shape, searched)
    e_shape,       \* the value of the Shape property and of the prefixed ones
    e_res,         \* the last call: its name, arguments and outcome
    \* ---- one object and the calls made on it: a Chamfer feature, a ----
    \* ---- FilletBase feature, the CommandManager                     ----
    x_obj,         \* the fields of the object
    x_res          \* the last call: its name, arguments and result

hVars == <<h_pc, h_feature, h_element, h_prev, h_ret, h_recursive, h_sameType,
           h_start, h_lost, h_seen>>
sVars == <<s_pc, s_owner, s_shape, s_ret, s_tagSet, s_type, s_seen>>
cVars == <<c_pc, c_lower, c_kind, c_rev, c_res>>
fVars == <<f_pc, f_in, f_res, f_tagChanges, f_i, f_steps, f_search, f_scans>>
oVars == <<emap, imap>>
rVars == <<r_in, r_cache, r_res>>
tVars == <<t_in, t_cache, t_res>>
gVars == <<g_sel, g_gate, g_pre, g_cur, g_res>>
eVars == <<e_registry, e_cache, e_shape, e_res>>
xVars == <<x_obj, x_res>>

vars == <<hVars, sVars, cVars, fVars, oVars, rVars, tVars, gVars, eVars, xVars>>

-----------------------------------------------------------------------------
(* The document *)

\* ids of the features alive in the document
Features == {1, 2}

\* ids that belonged to features that have been deleted
DeletedIds == {3}

NoObj == 0

\* the one document, and "no document"
Doc == "doc"
NoDoc == "none"

\* mapped element names; the kind of an element is part of its name
\* the names of the shapes getRelatedElements is asked about: current faces
\* Fq, Fa, Fb, older faces F1, F2, F0, the edge E0, and Xq of no known kind;
\* Unmapped stands in the shape for a face that has no mapped name
Unmapped == "F-"
RelatedFaces == {"Fq", "Fa", "Fb", "F1", "F2", "F0", Unmapped}
RelatedEdges == {"E0"}
Unknown == "Xq"
RelatedNames == RelatedFaces \cup RelatedEdges \cup {Unknown}

FaceNames == {"F1"}
EdgeNames == {"E1"}
Names == FaceNames \cup EdgeNames
NoName == ""

-----------------------------------------------------------------------------
(* External collaborators *)

\* TopoShape::elementType: the kind letter of a mapped name, "0" for none
elementType(n) ==
    IF n \in FaceNames \cup RelatedFaces THEN "F"
    ELSE IF n \in EdgeNames \cup RelatedEdges THEN "E"
    ELSE "0"

\* Document::getObjectByID: the feature with that id, or nullptr
getObjectByID(id) == IF id \in Features THEN id ELSE NoObj

abs(t) == IF t < 0 THEN -t ELSE t

\* What TopoShape::getElementHistory answers for one name of one shape: the
\* generator tag (0 = origin), the original name and the intermediate names.
Unset == [set |-> FALSE, tag |-> 0, orig |-> NoName, inter |-> <<>>]

HistoryTags == (Features \cup DeletedIds) \cup {-1}

EntryValues ==
    { [set |-> TRUE, tag |-> 0, orig |-> NoName, inter |-> <<>>] }
    \cup
    { [set |-> TRUE, tag |-> t, orig |-> o, inter |-> m]
        : t \in HistoryTags, o \in Names, m \in {<<>>, <<"E1">>} }

\* the shapes that can be asked: one per feature, and the null shape of a
\* deleted object, whose names are still found in the hasher table
Shapes == Features \cup {NoObj}
Keys == Shapes \X Names

\* the answers the element map of shape f can give for name n: the one
\* already given, or any
EntryChoices(m, f, n) ==
    IF m[<<f, n>>].set THEN {m[<<f, n>>]} ELSE EntryValues

\* TopoShape::getIndexedName: 0 when the name is not in the shape
IndexUnset == -1
IndexChoices(m, f, n) ==
    IF n = NoName THEN {0}
    ELSE IF m[<<f, n>>] # IndexUnset THEN {m[<<f, n>>]} ELSE {0, 1}

SetIndex(m, f, n, i) == IF n = NoName THEN m ELSE [m EXCEPT ![<<f, n>>] = i]

OInit ==
    /\ emap = [k \in Keys |-> Unset]
    /\ imap = [k \in Keys |-> IndexUnset]

\* no element map is asked through these oracles
OIdle ==
    /\ emap = <<>>
    /\ imap = <<>>

-----------------------------------------------------------------------------
(* Feature::getElementHistory *)

\* HistoryItem(obj, name)
\* a record that loses the name it is made for
HistoryItemUnnamed(obj, name) ==
    [obj |-> obj, tag |-> 0, element |-> NoName, index |-> 0, inter |-> <<>>]

HistoryItem(obj, name) ==
    [obj |-> obj, tag |-> 0, element |-> name, index |-> 0, inter |-> <<>>]

\* lines 534-544: the record of this step, after the prevElement fix-up
StepItem(feature, element, prev, e, idx, pidx) ==
    LET item == [HistoryItem(feature, element) EXCEPT
                    !.inter = e.inter, !.index = idx]
    IN  IF item.index = 0 /\ prev # NoName /\ pidx # 0
        THEN [item EXCEPT !.index = pidx,
                          !.inter = <<element>> \o item.inter,
                          !.element = prev]
        ELSE item

\* lines 545-548
NextPrev(item) ==
    IF Len(item.inter) > 0 THEN item.inter[Len(item.inter)] ELSE NoName

\* lines 577-582: an intermediate name of another kind than the start
InterTypeDiffers(inter, etype) ==
    \E k \in 1 .. Len(inter) : elementType(inter[k]) # etype

\* lines 528-530
StartType(sameType, element) == IF sameType THEN elementType(element) ELSE "0"

\* what one iteration of the loop reads of the locals
HistoryHead == <<h_feature, h_element, h_prev>>

\* the walk is back in a state it has been in: with the element maps fixed it
\* repeats from here for ever
HistoryLoops == h_pc = "loop" /\ HistoryHead \in h_seen

HIdle ==
    /\ h_pc = "idle"
    /\ h_feature = NoObj
    /\ h_element = NoName
    /\ h_start = NoName
    /\ h_prev = NoName
    /\ h_ret = <<>>
    /\ h_recursive = FALSE
    /\ h_sameType = FALSE
    /\ h_lost = 0
    /\ h_seen = {}

\* lines 517-531
HInit ==
    /\ h_pc = "loop"
    /\ h_feature \in Features
    /\ h_element \in Names
    /\ h_start = h_element
    /\ h_prev = NoName
    /\ h_ret = <<>>
    /\ h_recursive \in BOOLEAN
    /\ h_sameType \in BOOLEAN
    /\ h_lost = 0
    /\ h_seen = {}

\* one iteration of the do/while loop, lines 532-588
HistoryStep ==
    /\ h_pc = "loop"
    /\ ~HistoryLoops
    /\ \E e \in EntryChoices(emap, h_feature, h_element) :
       \E idx \in IndexChoices(imap, h_feature, h_element) :
       \E pidx \in (IF h_prev = h_element THEN {idx}
                    ELSE IndexChoices(imap, h_feature, h_prev)) :
        LET etype == StartType(h_sameType, h_start)
            item  == StepItem(h_feature, h_element, h_prev, e, idx, pidx)
            tag   == e.tag
            obj   == IF tag # 0 THEN getObjectByID(abs(tag)) ELSE NoObj
            ret1  == Append(h_ret, item)
        IN  /\ emap' = [emap EXCEPT ![<<h_feature, h_element>>] = e]
            /\ imap' = SetIndex(SetIndex(imap, h_feature, h_prev, pidx),
                                h_feature, h_element, idx)
            /\ h_prev' = NextPrev(item)
            /\ h_seen' = h_seen \cup {HistoryHead}
            /\ IF ~h_recursive
               THEN /\ h_ret' = Append(ret1,
                          [HistoryItem(obj, e.orig) EXCEPT !.tag = tag])
                    /\ h_pc' = "done"
                    /\ h_lost' = IF tag # 0 /\ obj = NoObj THEN tag ELSE 0
                    /\ UNCHANGED <<h_feature, h_element>>
               ELSE IF obj = NoObj
               THEN /\ h_ret' = ret1
                    /\ h_pc' = "done"
                    /\ h_lost' = tag
                    /\ UNCHANGED <<h_feature, h_element>>
               ELSE IF etype # "0" /\ InterTypeDiffers(item.inter, etype)
               THEN /\ h_ret' = ret1
                    /\ h_pc' = "done"
                    /\ UNCHANGED <<h_feature, h_element, h_lost>>
               ELSE /\ h_ret' = ret1
                    /\ h_feature' = obj
                    /\ h_element' = e.orig
                    /\ h_pc' = IF etype # "0" /\ elementType(e.orig) # etype
                               THEN "done" ELSE "loop"
                    /\ UNCHANGED h_lost
    /\ UNCHANGED <<h_recursive, h_sameType, h_start>>

-----------------------------------------------------------------------------
(* getElementSource *)

SIdle ==
    /\ s_pc = "idle"
    /\ s_owner = NoObj
    /\ s_shape = NoObj
    /\ s_ret = <<>>
    /\ s_tagSet = {}
    /\ s_type = "0"
    /\ s_seen = {}

\* lines 445-448; the caller passes the shape of `owner` and a name of it
SInit ==
    /\ s_pc = "loop"
    /\ s_owner \in Features
    /\ s_shape = s_owner
    /\ \E n \in Names :
        /\ s_ret = << <<0, n>> >>
        /\ s_type \in {"0", elementType(n)}
    /\ s_tagSet = {}
    /\ s_seen = {}

\* what one iteration of the loop reads of the locals
SourceHead == <<s_owner, s_shape, s_ret[Len(s_ret)], s_tagSet>>

\* the trace is back in a state it has been in: it repeats from here for ever
SourceLoops == s_pc = "loop" /\ SourceHead \in s_seen

\* lines 498-499: the circular-mapping test
Circular(tag, last, doc, tagSet) ==
    abs(tag) # last[1] /\ <<doc, tag>> \in tagSet

\* line 499: the insertion is evaluated only when the tags differ
InsertTag(tag, last, doc, tagSet) ==
    IF abs(tag) # last[1] THEN tagSet \cup {<<doc, tag>>} ELSE tagSet

\* one iteration of the while(1) loop, lines 449-509
SourceStep ==
    /\ s_pc = "loop"
    /\ ~SourceLoops
    /\ LET last == s_ret[Len(s_ret)]
       IN \E e \in EntryChoices(emap, s_shape, last[2]) :
        LET tag   == e.tag
            obj   == IF s_owner # NoObj THEN getObjectByID(abs(tag)) ELSE NoObj
            doc   == IF obj = NoObj THEN NoDoc ELSE Doc
        IN  /\ emap' = [emap EXCEPT ![<<s_shape, last[2]>>] = e]
            /\ s_seen' = s_seen \cup {SourceHead}
            /\ IF tag = 0
               THEN /\ s_pc' = "done"
                    /\ UNCHANGED <<s_owner, s_shape, s_ret, s_tagSet>>
               ELSE IF s_owner # NoObj /\ s_type # "0"
                       /\ InterTypeDiffers(e.inter, s_type)
               THEN /\ s_pc' = "done"
                    /\ UNCHANGED <<s_owner, s_shape, s_ret, s_tagSet>>
               ELSE /\ s_owner' = obj
                    /\ s_shape' = obj
                    /\ IF s_type # "0" /\ elementType(e.orig) # s_type
                       THEN /\ s_pc' = "done"
                            /\ UNCHANGED <<s_ret, s_tagSet>>
                       ELSE IF Circular(tag, last, doc, s_tagSet)
                       THEN /\ s_pc' = "done"
                            /\ UNCHANGED <<s_ret, s_tagSet>>
                       ELSE /\ s_tagSet' = InsertTag(tag, last, doc, s_tagSet)
                            /\ s_ret' = Append(s_ret, <<tag, e.orig>>)
                            /\ s_pc' = "loop"
    /\ UNCHANGED s_type

-----------------------------------------------------------------------------
(* Feature::getExportElementName: the shape *)

MinLowerTopoNames == 3
MaxLowerTopoNames == 10

\* the higher elements (wires, or shells/solids/...) of the shape, by index
Higher == {1, 2}

\* an index no element of the shape has: getSubTopoShape gives a null shape
AbsentIndex == Cardinality(Higher) + 1

\* the kinds of elements a call can ask for
Kinds == {"Wire", "Shell", "Solid", "Compound", "CompSolid", "Face", "Edge", "Vertex"}

\* lines 205-219: the kind of the lower elements that name an element
LowerKind(kind) ==
    IF kind = "Wire" THEN "Edge"
    ELSE IF kind \in {"Shell", "Solid", "Compound", "CompSolid"} THEN "Face"
    ELSE "Shape"

\* a shape has up to this many lower elements: one more than fit in a name
MaxLower == MaxLowerTopoNames + 1

\* at most this many lower elements of a shape are not shared by all higher
\* elements
MaxOwn == 2

NoCombo == [names |-> <<>>, op |-> "none"]

\* a lower element: the higher elements it lies in, and whether it has a
\* mapped name
SharedLower == [anc |-> Higher, named |-> TRUE]
LowerKinds == [anc : (SUBSET Higher) \ {{}}, named : BOOLEAN]

\* the lower elements that differ from SharedLower: in shapes of up to
\* MinLowerTopoNames elements any kind, in longer ones named elements
OwnKinds(n) ==
    IF n <= MinLowerTopoNames THEN LowerKinds \ {SharedLower}
    ELSE { k \in LowerKinds : k.named /\ k.anc # Higher }

ShapeChoices ==
    UNION { { [i \in 1 .. n |-> IF i \in P THEN t[i] ELSE SharedLower]
                : t \in [P -> OwnKinds(n)] }
            : <<n, P>> \in { <<n, P>> \in (1 .. MaxLower) \X SUBSET (1 .. MaxLower)
                              : P \subseteq 1 .. n /\ Cardinality(P) <= MaxOwn } }

\* TopoShape::getMappedName of lower element i: the elements at even
\* positions carry a history postfix from an earlier modelling step
LowerNames ==
    [i \in 1 .. MaxLower |->
        IF i % 2 = 0 THEN "Edge" \o ToString(i) \o ";:H1,E"
        ELSE "Edge" \o ToString(i)]
LowerName(i) == LowerNames[i]

\* a variant of MappedNameOf that names every lower element
MappedNameAlways(lower, i) == LowerName(i)

\* ss.getMappedName(idxName), line 227: empty when the element has no name
MappedNameOf(lower, i) == IF lower[i].named THEN LowerName(i) ELSE NoName

\* the higher elements in index order
HigherSeq == [k \in 1 .. Cardinality(Higher) |-> k]

\* TopoShape::getSubTopoShapes(lower) of higher element h: its lower elements
SubLowers(lower, h) ==
    SelectSeq([i \in 1 .. Len(lower) |-> i], LAMBDA i : h \in lower[i].anc)

\* TopoShape::findAncestors(lower element i, kind of h): indices, ascending
findAncestors(lower, i) == SelectSeq(HigherSeq, LAMBDA k : k \in lower[i].anc)

\* TopoShape::getIndexedName of a lower element's name: 0 when not in the shape
LowerIndex(lower, name) ==
    LET S == { i \in DOMAIN lower : lower[i].named /\ LowerName(i) = name }
    IN  IF S = {} THEN 0 ELSE CHOOSE i \in S : TRUE

\* position of x in sequence q, counted from 0; Len(q) when absent (std::find)
Find(q, x) ==
    LET S == { k \in 1 .. Len(q) : q[k] = x }
    IN  IF S = {} THEN Len(q) ELSE (CHOOSE k \in S : \A j \in S : k <= j) - 1

InSeq(q, x) == \E k \in 1 .. Len(q) : q[k] = x

\* ComplexGeoData::indexPostfix() + std::to_string(k)
indexPostfix == ";:I"
IndexOps == [k \in 0 .. MaxLower |-> indexPostfix \o ToString(k)]
IndexOp(k) == IndexOps[k]

\* lines 347-350: the index read back from a postfix, -1 when there is none
ParseIndexOp(op) ==
    LET S == { k \in 0 .. MaxLower : IndexOp(k) = op }
    IN  IF S = {} THEN -1 ELSE CHOOSE k \in S : TRUE

-----------------------------------------------------------------------------
(* Feature::getExportElementName: synthesis, lines 201-295 *)

\* lines 226-233: collect the named lower elements of h and their ancestors;
\* NameEntry.first is name.size()
RECURSIVE Collect(_, _, _, _, _)
Collect(lower, ls, indices, names, count) ==
    IF ls = <<>> THEN [indices |-> indices, names |-> names]
    ELSE LET i == Head(ls)
             name == MappedNameOf(lower, i)
         IN  IF name = NoName
             THEN Collect(lower, Tail(ls), indices, names, count)
             ELSE LET anc  == findAncestors(lower, i)
                      ind1 == Append(indices, [first |-> Len(name), second |-> anc])
                      nam1 == Append(names, name)
                      cnt1 == IF Len(anc) = 1 THEN count + 1 ELSE count
                  IN  IF Len(anc) = 1 /\ cnt1 >= MinLowerTopoNames
                      THEN [indices |-> ind1, names |-> nam1]
                      ELSE Collect(lower, Tail(ls), ind1, nam1, cnt1)

\* lines 236-239: std::stable_sort by the number of ancestors
RECURSIVE StableSortBySize(_, _)
StableSortBySize(indices, k) ==
    IF k > Cardinality(Higher) THEN <<>>
    ELSE SelectSeq(indices, LAMBDA v : Len(v.second) = k)
            \o StableSortBySize(indices, k + 1)

\* lines 248-255: erase what is not in v, stopping once one is left
RECURSIVE EraseLoop(_, _, _)
EraseLoop(kept, rest, v) ==
    IF rest = <<>> THEN kept
    ELSE IF ~InSeq(v, Head(rest))
         THEN LET now == kept \o Tail(rest)
              IN  IF Len(now) = 1 THEN now ELSE EraseLoop(kept, Tail(rest), v)
         ELSE EraseLoop(Append(kept, Head(rest)), Tail(rest), v)

\* lines 243-265: the loop over the sorted entries.  `sorted` itself is never
\* read afterwards; what remains of it here is its length and whether
\* names[v.first] was read outside names.
RECURSIVE Reorder(_, _, _, _, _)
Reorder(vs, nnames, ancestors, nsorted, oob) ==
    IF vs = <<>> THEN [ancestors |-> ancestors, oob |-> oob]
    ELSE LET v    == Head(vs)
             size == Len(ancestors)
             anc1 == IF size = 0 THEN v.second
                     ELSE IF size > 1 THEN EraseLoop(<<>>, ancestors, v.second)
                     ELSE ancestors
             oob1 == oob \/ v.first >= nnames
         IN  IF size = 1 /\ nsorted + 1 >= MinLowerTopoNames
             THEN [ancestors |-> anc1, oob |-> oob1]
             ELSE Reorder(Tail(vs), nnames, anc1, nsorted + 1, oob1)

\* lines 235-266
Ancestors(indices, names) ==
    IF Len(names) >= MaxLowerTopoNames
    THEN Reorder(StableSortBySize(indices, 1), Len(names), <<>>, 0, FALSE)
    ELSE [ancestors |-> <<>>, oob |-> FALSE]

\* a variant of Resize that keeps every name
ResizeNone(names) == names

\* line 268
Resize(names) ==
    SubSeq(names, 1, IF Len(names) < MaxLowerTopoNames THEN Len(names)
                     ELSE MaxLowerTopoNames)

\* a suffix taken from how many names the element map already holds
ComboOpByMapSize(ancestors, h) ==
    IF Len(ancestors) > 1
    THEN IndexOp(Cardinality({ k \in Higher : c_rev[k] # NoCombo })) ELSE ""

\* lines 270-280
ComboOp(ancestors, h) ==
    IF Len(ancestors) > 1 /\ Find(ancestors, h) < Len(ancestors)
    THEN IndexOp(Find(ancestors, h)) ELSE ""

\* lines 221-295: what is handed to setElementComboName for higher element h
\* (names empty: nothing is set), and whether an out-of-range read happened
Synthesis(lower, h) ==
    LET c == Collect(lower, SubLowers(lower, h), <<>>, <<>>, 0)
        a == Ancestors(c.indices, c.names)
    IN  [names |-> Resize(c.names), op |-> ComboOp(a.ancestors, h), oob |-> a.oob]

\* lines 201-295: nothing is synthesized for a null sub-shape or for a kind
\* that is not named by lower elements
SynthesisFor(lower, kind, h) ==
    IF h \notin Higher \/ LowerKind(kind) = "Shape"
    THEN [names |-> <<>>, op |-> "", oob |-> FALSE]
    ELSE Synthesis(lower, h)

\* TopoShape::getElementName of an index name: the stored name, if any
StoredName(rev, h) == IF h \in Higher THEN rev[h] ELSE NoCombo

-----------------------------------------------------------------------------
(* Feature::getExportElementName: decoding, lines 299-359 *)

\* lines 336-341
Intersect(ancestors, current) == SelectSeq(ancestors, LAMBDA x : InSeq(current, x))

\* lines 319-345: the loop over the decoded names
RECURSIVE DecodeLoop(_, _, _)
DecodeLoop(lower, names, ancestors) ==
    IF names = <<>> THEN ancestors
    ELSE LET index == LowerIndex(lower, Head(names))
         IN  IF index = 0 THEN <<>>
             ELSE LET current == findAncestors(lower, index)
                  IN  IF ancestors = <<>>
                      THEN DecodeLoop(lower, Tail(names), current)
                      ELSE LET rest == Intersect(ancestors, current)
                           IN  IF rest = <<>> THEN <<>>
                               ELSE DecodeLoop(lower, Tail(names), rest)

\* lines 346-352.  ancestors.resize(1, ancestors[idx]) shrinks the vector:
\* its first element stays, the value given is used only when growing
ApplyPostfix(ancestors, postfix) ==
    LET idx == ParseIndexOp(postfix)
    IN  IF Len(ancestors) > 1 /\ idx >= 0 /\ idx < Len(ancestors)
        THEN <<ancestors[1]>> ELSE ancestors

\* lines 313-357: the index assigned to a combo name, 0 when none is
Decode(lower, combo) ==
    LET a == ApplyPostfix(DecodeLoop(lower, combo.names, <<>>), combo.op)
    IN  IF Len(a) = 1 THEN a[1] ELSE 0

-----------------------------------------------------------------------------
(* Feature::getExportElementName: the calls *)

\* a call of getExportElementName touches nothing of the other operations
COthers == UNCHANGED <<hVars, sVars, fVars, oVars, rVars, tVars, gVars, eVars, xVars>>

\* TopoShape::setElementComboName: the mapped name made of the lower names
\* and the postfix
ComboName(names, op) == [names |-> names, op |-> op]

\* TopoShape::getElementName of a mapped name: the higher elements the
\* element map holds it for
Holders(rev, combo) == { h \in Higher : rev[h] = combo }

NoRes == [call |-> "none", h |-> 0, name |-> NoCombo, index |-> 0]

CIdle ==
    /\ c_pc = "idle"
    /\ c_lower = <<>>
    /\ c_kind = "Wire"
    /\ c_rev = [h \in Higher |-> NoCombo]
    /\ c_res = NoRes

CInit ==
    /\ c_pc = "ready"
    /\ c_lower \in ShapeChoices
    /\ c_kind \in (IF Len(c_lower) <= MinLowerTopoNames THEN Kinds ELSE {"Wire"})
    /\ c_rev = [h \in Higher |-> NoCombo]
    /\ c_res = NoRes

\* getExportElementName(shape, "Wire<h>"), lines 179-298 and 360: the stored
\* name if there is one, else the synthesized one, which is stored
ExportIndexName(h) ==
    /\ COthers
    /\ c_pc = "ready"
    /\ IF StoredName(c_rev, h) # NoCombo
       THEN /\ c_res' = [call |-> "name", h |-> h, name |-> c_rev[h], index |-> h]
            /\ UNCHANGED <<c_pc, c_rev>>
       ELSE \E syn \in {SynthesisFor(c_lower, c_kind, h)} :
            \E crash \in (IF syn.oob THEN BOOLEAN ELSE {FALSE}) :
                IF crash
                THEN /\ c_pc' = "crashed"
                     /\ c_res' = NoRes
                     /\ UNCHANGED c_rev
                ELSE IF syn.names = <<>>
                THEN /\ c_res' = [call |-> "name", h |-> h, name |-> NoCombo, index |-> h]
                     /\ UNCHANGED <<c_pc, c_rev>>
                ELSE /\ c_rev' = [c_rev EXCEPT ![h] = ComboName(syn.names, syn.op)]
                     /\ c_res' = [call |-> "name", h |-> h,
                                  name |-> ComboName(syn.names, syn.op), index |-> h]
                     /\ UNCHANGED c_pc
    /\ UNCHANGED <<c_lower, c_kind>>

\* getExportElementName(shape, "<name>.Wire<h>") with the name given out for
\* h, against the shape as it is (lines 179-183, 360): the element map holds
\* the name
ExportMappedName(h) ==
    /\ COthers
    /\ c_pc = "ready"
    /\ c_rev[h] # NoCombo
    /\ \E k \in Holders(c_rev, c_rev[h]) :
        c_res' = [call |-> "direct", h |-> h, name |-> c_rev[h], index |-> k]
    /\ UNCHANGED <<c_pc, c_lower, c_kind, c_rev>>

\* the same call against the same shape rebuilt from identical inputs, whose
\* element map holds no synthesized name yet: decoding, lines 299-359
ExportMappedNameRebuilt(h) ==
    /\ COthers
    /\ c_pc = "ready"
    /\ c_rev[h] # NoCombo
    /\ c_res' = [call |-> "decode", h |-> h, name |-> c_rev[h],
                 index |-> Decode(c_lower, c_rev[h])]
    /\ UNCHANGED <<c_pc, c_lower, c_kind, c_rev>>

\* what a lower element can have become in a changed shape: it may lie in no
\* higher element any more
ChangedKinds == [anc : SUBSET Higher, named : BOOLEAN]

\* the same call against a shape of up to MinLowerTopoNames lower elements
\* in which one of them has changed: decoding, lines 299-359
ExportMappedNameChanged(h) ==
    /\ COthers
    /\ c_pc = "ready"
    /\ c_rev[h] # NoCombo
    /\ Len(c_lower) <= MinLowerTopoNames
    /\ \E k \in 1 .. Len(c_lower), kind \in ChangedKinds :
        LET changed == [c_lower EXCEPT ![k] = kind]
        IN  c_res' = [call |-> "changed", h |-> h, name |-> c_rev[h],
                      index |-> Decode(changed, c_rev[h]), lower |-> changed]
    /\ UNCHANGED <<c_pc, c_lower, c_kind, c_rev>>

\* getExportElementName(shape, "Wire<h>") against the shape rebuilt from
\* identical inputs: the name is synthesized again
ExportIndexNameRebuilt(h) ==
    /\ COthers
    /\ c_pc = "ready"
    /\ c_rev[h] # NoCombo
    /\ \E syn \in {SynthesisFor(c_lower, c_kind, h)} :
           \E crash \in (IF syn.oob THEN BOOLEAN ELSE {FALSE}) :
            IF crash
            THEN /\ c_pc' = "crashed"
                 /\ c_res' = NoRes
            ELSE /\ c_res' = [call |-> "again", h |-> h,
                              name |-> ComboName(syn.names, syn.op), index |-> h]
                 /\ UNCHANGED c_pc
    /\ UNCHANGED <<c_lower, c_kind, c_rev>>

-----------------------------------------------------------------------------
(* Feature::getElementFromSource, lines 592-707 *)

\* elements of the wanted kind in the target shape, at most
MaxCount == 2

\* callbacks one traceElement makes, at most
MaxTrace == 5

TargetObj == 1
SourceObj == 2

NoInput ==
    [obj |-> NoObj, src |-> NoObj, owner |-> NoObj, single |-> FALSE,
     hasName |-> FALSE, typed |-> FALSE, sameCount |-> FALSE, count |-> 0]

\* obj, src and single are the arguments; owner is what getTopoShape left in
\* it (line 606), hasName whether resolveElement gave a mapped name (lines
\* 637-647), typed whether the old style name gives a shape type (line 658),
\* sameCount the comparison of line 666, count that of line 698
Inputs ==
    { [NoInput EXCEPT !.obj = o, !.src = r] :
        <<o, r>> \in ({NoObj, TargetObj} \X {NoObj, SourceObj}) \ {<<TargetObj, SourceObj>>} }
    \cup [obj : {TargetObj}, src : {SourceObj}, owner : {NoObj, SourceObj},
          single : BOOLEAN, hasName : BOOLEAN, typed : BOOLEAN,
          sameCount : BOOLEAN, count : 0 .. MaxCount]

FIdle ==
    /\ f_pc = "idle"
    /\ f_in = NoInput
    /\ f_res = <<>>
    /\ f_tagChanges = 0
    /\ f_i = 0
    /\ f_steps = 0
    /\ f_search = 0
    /\ f_scans = 0

FInit ==
    /\ f_pc = "entry"
    /\ f_in \in Inputs
    /\ f_res = <<>>
    /\ f_tagChanges = 0
    /\ f_i = 0
    /\ f_steps = 0
    /\ f_search = 0
    /\ f_scans = 0

\* a call of getElementFromSource touches nothing of the other operations
FOthers == UNCHANGED <<hVars, sVars, cVars, oVars, rVars, tVars, gVars, eVars, xVars>>

\* lines 664-666
ShortcutApplies(in) == in.typed /\ in.hasName /\ in.sameCount

\* lines 599-671: up to the start of the shortcut trace
FEnter ==
    /\ FOthers
    /\ f_pc = "entry"
    /\ f_pc' = IF f_in.obj = NoObj \/ f_in.src = NoObj THEN "done"
               ELSE IF ShortcutApplies(f_in) THEN "shortcut"
               ELSE "search"
    /\ UNCHANGED <<f_in, f_res, f_tagChanges, f_i, f_steps, f_search, f_scans>>

\* a variant that still compares the third step with another tag
checkHistoryLate(tagChanges, tagMatch, nameMatch, resolved) ==
    LET cut == ~tagMatch /\ tagChanges # 0 /\ tagChanges + 1 > 4
    IN  [tagChanges |-> IF tagMatch THEN (IF tagChanges = 0 THEN 1 ELSE tagChanges)
                        ELSE IF tagChanges # 0 THEN tagChanges + 1 ELSE 0,
         resolves   |-> ~cut /\ nameMatch,
         report     |-> ~cut /\ nameMatch /\ resolved = "index",
         stop       |-> cut \/ (nameMatch /\ resolved = "index")]

\* the lambda checkHistory, lines 611-633.  tagMatch: std::abs(tag) ==
\* owner->getID(); nameMatch: name == element.name; resolved: what
\* resolveElement gives for the element being checked.
checkHistory(tagChanges, tagMatch, nameMatch, resolved) ==
    LET cut == ~tagMatch /\ tagChanges # 0 /\ tagChanges + 1 > 3
    IN  [tagChanges |-> IF tagMatch THEN (IF tagChanges = 0 THEN 1 ELSE tagChanges)
                        ELSE IF tagChanges # 0 THEN tagChanges + 1 ELSE 0,
         resolves   |-> ~cut /\ nameMatch,
         report     |-> ~cut /\ nameMatch /\ resolved = "index",
         stop       |-> cut \/ (nameMatch /\ resolved = "index")]

\* a variant that goes on to the geometric search whatever the shortcut found
AfterShortcutNoExit(res) == "search"

\* lines 672-673
AfterShortcut(res) == IF Len(res) > 0 THEN "done" ELSE "search"

\* a variant of the scan loop that goes on whatever single says
AfterScanTraceAll(in, res, i) ==
    IF i + 1 < in.count THEN "scan" ELSE "done"

\* lines 698 and 703-705: the scan loop after the trace of element i
AfterScanTrace(in, res, i) ==
    IF in.single /\ Len(res) > 0 THEN "done"
    ELSE IF i + 1 < in.count THEN "scan" ELSE "done"

\* what follows the return of traceElement
TraceReturns(res) ==
    /\ f_res' = res
    /\ f_steps' = 0
    /\ IF f_pc = "shortcut"
       THEN /\ f_pc' = AfterShortcut(res)
            /\ UNCHANGED <<f_i, f_scans>>
       ELSE /\ f_pc' = AfterScanTrace(f_in, res, f_i)
            /\ f_i' = f_i + 1
            /\ f_scans' = f_scans + 1
    /\ UNCHANGED f_search

\* traceElement calls checkHistory for one more step of the element's history
FCheckHistory ==
    /\ FOthers
    /\ f_pc \in {"shortcut", "scan"}
    /\ f_steps < MaxTrace
    /\ \E tagMatch \in BOOLEAN, nameMatch \in BOOLEAN,
          resolved \in {"index", "none", "throw"},
          fault \in (IF f_in.owner = NoObj THEN BOOLEAN ELSE {FALSE}) :
        LET tc == IF f_steps = 0 THEN 0 ELSE f_tagChanges
            r  == checkHistory(tc, tagMatch, nameMatch, resolved)
        IN  IF fault
            THEN \* owner->getID() through the null owner
                 /\ f_pc' = "crashed"
                 /\ UNCHANGED <<f_res, f_tagChanges, f_i, f_steps, f_search, f_scans>>
            ELSE IF r.resolves /\ resolved = "throw"
            THEN /\ f_pc' = "threw"
                 /\ f_tagChanges' = r.tagChanges
                 /\ UNCHANGED <<f_res, f_i, f_steps, f_search, f_scans>>
            ELSE IF r.stop
            THEN /\ f_tagChanges' = r.tagChanges
                 /\ TraceReturns(IF r.report
                                 THEN Append(f_res, [via |-> f_pc, tag |-> r.tagChanges,
                                                     name |-> nameMatch, element |-> f_i + 1])
                                 ELSE f_res)
            ELSE /\ f_tagChanges' = r.tagChanges
                 /\ f_steps' = f_steps + 1
                 /\ UNCHANGED <<f_pc, f_res, f_i, f_search, f_scans>>
    /\ UNCHANGED f_in

\* the history of the traced element has no further step
FTraceEnds ==
    /\ FOthers
    /\ f_pc \in {"shortcut", "scan"}
    /\ f_tagChanges' = IF f_steps = 0 THEN 0 ELSE f_tagChanges
    /\ TraceReturns(f_res)
    /\ UNCHANGED f_in

\* what searchSubShape can put in names, line 678: indices of elements of
\* the target shape, in the order it found them
SearchNames == {<<>>, <<1>>, <<1, 2>>, <<2, 1>>}

\* lines 680-686
SearchResults(names, single) ==
    IF single THEN <<[via |-> "search", tag |-> 0, name |-> FALSE, element |-> names[1]]>>
    ELSE [k \in 1 .. Len(names) |->
            [via |-> "search", tag |-> 0, name |-> FALSE, element |-> names[k]]]

\* lines 690-698: after a search that found nothing
AfterSearch(in) ==
    IF ~in.hasName \/ ~in.typed THEN "done"
    ELSE IF 0 < in.count THEN "scan" ELSE "done"

\* lines 675-698: the geometric search; searchSubShape gives the indices of
\* the elements it found, or the kernel throws
FSearch ==
    /\ FOthers
    /\ f_pc = "search"
    /\ f_search' = f_search + 1
    /\ \E threw \in BOOLEAN, names \in SearchNames :
        IF threw
        THEN /\ f_pc' = "threw"
             /\ UNCHANGED f_res
        ELSE IF Len(names) > 0
        THEN /\ f_res' = f_res \o SearchResults(names, f_in.single)
             /\ f_pc' = "done"
        ELSE /\ f_pc' = AfterSearch(f_in)
             /\ UNCHANGED f_res
    /\ UNCHANGED <<f_in, f_tagChanges, f_i, f_steps, f_scans>>

-----------------------------------------------------------------------------
(* Feature::getRelatedElements, lines 709-776 *)

\* the names a call can be made with; NoName stands for a name that
\* shape.getElementName does not map (line 716)
QueryNames == {"Fq", Unknown, NoName}

\* what shape.getElementHistory gives as the original of each name, NoName
\* at an origin (tag 0); a newer name comes from an older one
Origins ==
    { [n \in RelatedNames |->
        IF n = "Fq" THEN q ELSE IF n = "Fa" THEN a ELSE IF n = "Fb" THEN b
        ELSE IF n = "F1" THEN o ELSE IF n = "F2" THEN "F0" ELSE NoName] :
        q \in {NoName, "F1", "F2"}, a \in {NoName, "F1", "F2"},
        b \in {"F1", "F2"}, o \in {"F0", "E0"} }

\* the mapped names of the elements of the current shape, in index order
NameOrder == <<Unmapped, "Fa", "Fq", "Fb", "F1", "E0">>
RelatedShapes ==
    { SelectSeq(NameOrder, LAMBDA n : n = "Fa" \/ n \in present) :
        present \in SUBSET {Unmapped, "Fq", "Fb", "F1", "E0"} }

NoEntry == [set |-> FALSE, ret |-> <<>>]
NoCall == [name |-> NoName, sameType |-> FALSE, withCache |-> FALSE,
           ret |-> <<>>, traces |-> 0]

RIdle ==
    /\ r_in = [shape |-> <<>>, orig |-> <<>>]
    /\ r_cache = <<>>
    /\ r_res = NoCall

RInit ==
    /\ r_in \in [shape : RelatedShapes, orig : Origins]
    /\ r_cache = [k \in (QueryNames \ {NoName}) \X BOOLEAN |-> NoEntry]
    /\ r_res = NoCall

\* getElementSource, lines 441-511, as getRelatedElements uses it: the names
\* of the chain from the element back to its origin, cut before the first
\* original of another kind when a type is given.  Every step has a tag of
\* its own here.
RECURSIVE getElementSourceNames(_, _, _)
getElementSourceNames(orig, ret, type) ==
    LET original == orig[ret[Len(ret)]]
    IN  IF original = NoName THEN ret
        ELSE IF type # "0" /\ elementType(original) # type THEN ret
        ELSE getElementSourceNames(orig, Append(ret, original), type)

\* the elements of the shape of one kind, in index order (lines 745-750)
SubShapes(shape, type) == SelectSeq(shape, LAMBDA n : elementType(n) = type)

\* shape.getIndexedName: the index of the element among those of its kind, 0
\* when the shape has no element of that name
getIndexedName(shape, n) ==
    LET subs == SubShapes(shape, elementType(n))
    IN  IF InSeq(subs, n) THEN Find(subs, n) + 1 ELSE 0

MappedElement(shape, n) == [name |-> n, index |-> getIndexedName(shape, n)]

\* lines 734-741: the first name of the chain the shape has, 0 for none
RECURSIVE FirstPresent(_, _, _)
FirstPresent(shape, source, k) ==
    IF k > Len(source) THEN 0
    ELSE IF getIndexedName(shape, source[k]) # 0 THEN k
    ELSE FirstPresent(shape, source, k + 1)

\* a variant of the comparison that leaves idx where the names differ
RECURSIVE CompareStays(_, _, _, _)
CompareStays(source, src, idx, j) ==
    IF idx < 0 \/ j < 1 THEN idx
    ELSE IF src[j] # source[idx + 1] THEN idx
    ELSE CompareStays(source, src, idx - 1, j - 1)

\* lines 754-768: both chains are walked from their origin ends; idx is the
\* C++ index into source, j the position of rit in src
RECURSIVE CompareChains(_, _, _, _)
CompareChains(source, src, idx, j) ==
    IF idx < 0 \/ j < 1 THEN idx
    ELSE IF src[j] # source[idx + 1] THEN idx + 1
    ELSE CompareChains(source, src, idx - 1, j - 1)

\* idx of line 769 for the element named n
DivergeAt(in, source, n, type) ==
    LET src == getElementSourceNames(in.orig, <<n>>, type)
    IN  CompareChains(source, src, Len(source) - 1, Len(src))

\* lines 743-773: retMap.begin()->second, the elements with the least idx
ScanRelated(in, source, etype, type) ==
    LET subs == SubShapes(in.shape, etype)
        named == SelectSeq(subs, LAMBDA n : n # Unmapped)
        keys == { DivergeAt(in, source, named[i], type) : i \in 1 .. Len(named) }
        used == { k \in keys : k < Len(source) }
    IN  IF used = {} THEN <<>>
        ELSE LET least == CHOOSE k \in used : \A m \in used : k <= m
                 group == SelectSeq(named,
                            LAMBDA n : DivergeAt(in, source, n, type) = least)
             IN  [i \in 1 .. Len(group) |-> MappedElement(in.shape, group[i])]

\* lines 728-775, the part after the cache read: ret, whether it is stored,
\* and the number of getElementSource calls made
Compute(in, name, sameType) ==
    LET etype  == elementType(name)
        type   == IF sameType THEN etype ELSE "0"
        source == getElementSourceNames(in.orig, <<name>>, type)
        k      == FirstPresent(in.shape, source, 1)
    IN  IF etype = "0" THEN [ret |-> <<>>, store |-> FALSE, traces |-> 0]
        ELSE IF k # 0
        THEN [ret |-> <<MappedElement(in.shape, source[k])>>,
              store |-> TRUE, traces |-> 1]
        ELSE [ret |-> ScanRelated(in, source, etype, type), store |-> TRUE,
              traces |-> 1 + Len(SelectSeq(SubShapes(in.shape, etype),
                                           LAMBDA n : n # Unmapped))]

\* a variant of the cache key that forgets sameType
CacheKeyAny(name, sameType) == <<name, TRUE>>

\* getRelatedElementsCached and cacheRelatedElements: the entry of the
\* element and sameType
CacheKey(name, sameType) == <<name, sameType>>

\* one call of getRelatedElements on the object
GetRelatedElements(name, sameType, withCache) ==
    /\ UNCHANGED <<hVars, sVars, cVars, fVars, oVars, tVars, gVars, eVars, xVars, r_in>>
    /\ IF name = NoName
       THEN /\ r_res' = [NoCall EXCEPT !.sameType = sameType,
                                       !.withCache = withCache]
            /\ UNCHANGED r_cache
       ELSE IF withCache /\ r_cache[CacheKey(name, sameType)].set
       THEN /\ r_res' = [NoCall EXCEPT !.name = name, !.sameType = sameType,
                            !.withCache = withCache,
                            !.ret = r_cache[CacheKey(name, sameType)].ret]
            /\ UNCHANGED r_cache
       ELSE \E c \in {Compute(r_in, name, sameType)} :
            /\ r_res' = [NoCall EXCEPT !.name = name, !.sameType = sameType,
                            !.withCache = withCache,
                            !.ret = c.ret, !.traces = c.traces]
            /\ r_cache' = IF c.store
                          THEN [r_cache EXCEPT ![CacheKey(name, sameType)] =
                                            [set |-> TRUE, ret |-> c.ret]]
                          ELSE r_cache

-----------------------------------------------------------------------------
(* _getTopoShape, lines 842-1114, and the shape cache *)

\* the queried object obj, and the object its subname "C." resolves to
Queried == 1
Child == 2

\* the document of obj, and another one
HomeDoc == 1
OtherDoc == 2

\* the subnames a query comes with: none, a sub-object, an element of it
Subnames == {"", "C.", "C.Face1"}

\* findElementName: the element part of a subname
HasElement(sub) == sub = "C.Face1"

\* lines 857-864: the element name is stripped when it is not needed
Stripped(sub, needSubElement) ==
    IF ~needSubElement /\ HasElement(sub) THEN "C." ELSE sub

\* obj->getSubObject(subname), line 886
OwnerOf(sub) == IF sub = "" THEN Queried ELSE Child

CacheKeys == ({Queried} \X Subnames) \cup {<<Child, "">>}

\* a shape: whose geometry it is, whether mat has been applied to it, its
\* Tag, the document of its Hasher (0 = none), whether it has an element map
NullShape == [geo |-> 0, mat |-> FALSE, tag |-> 0, hasher |-> 0, map |-> FALSE]

\* what the sub-object is (line 906: its Python shape; lines 924-940: a datum
\* object; "missing": getSubObject gives nullptr), what it links to, the
\* documents, the scales of mat and linkMat, and what canCache looks at
\* lastLink, hiddens (TRUE: not empty) and isNonGeoGroup of obj and of the
\* owner, as far as canCache can tell them apart
Permissions ==
    { [lastLink |-> FALSE, hiddens |-> FALSE, nonGeoObj |-> FALSE, nonGeoOwner |-> FALSE],
      [lastLink |-> TRUE, hiddens |-> TRUE, nonGeoObj |-> FALSE, nonGeoOwner |-> FALSE] }
    \cup [lastLink : {TRUE}, hiddens : {FALSE}, nonGeoObj : BOOLEAN, nonGeoOwner : BOOLEAN]

Contexts ==
    { [kind |-> k, linked |-> "same", linkedDoc |-> d, linkScale |-> FALSE,
       ownerDoc |-> d, matScale |-> m, perm |-> p] :
        k \in {"python", "line", "plane", "placement", "other", "missing"},
        d \in {HomeDoc, OtherDoc}, m \in BOOLEAN, p \in Permissions }
    \cup
    [kind : {"python", "other"},
     linked : {"other"}, linkedDoc : {HomeDoc, OtherDoc}, linkScale : BOOLEAN,
     ownerDoc : {HomeDoc, OtherDoc}, matScale : BOOLEAN, perm : Permissions]

NoQuery == [sub |-> "", needSubElement |-> FALSE, noElementMap |-> FALSE,
            path |-> "none", ret |-> NullShape, writes |-> <<>>,
            computed |-> FALSE, held |-> FALSE]

TIdle ==
    /\ t_in = <<>>
    /\ t_cache = <<>>
    /\ t_res = NoQuery

TInit ==
    /\ t_in \in Contexts
    /\ t_cache = [k \in CacheKeys |-> NullShape]
    /\ t_res = NoQuery

\* lines 866-869
canCache(in, o) ==
    ~in.perm.lastLink
    \/ (~in.perm.hiddens
        /\ ~(IF o = Queried THEN in.perm.nonGeoObj ELSE in.perm.nonGeoOwner))

\* resetElementMap, Tag = 0, Hasher.reset(): lines 872-876 and the like
Reset(shape) == [shape EXCEPT !.tag = 0, !.hasher = 0, !.map = FALSE]

Returned(shape, noElementMap) == IF noElementMap THEN Reset(shape) ELSE shape

\* owner->getID() and the hasher of its document, lines 889-890
Tagged(in, owner) ==
    [geo |-> owner, mat |-> FALSE, tag |-> owner,
     hasher |-> (IF owner = Queried THEN HomeDoc ELSE in.ownerDoc), map |-> TRUE]

\* shape.transformShape(mat, false, true)
Transformed(shape) == [shape EXCEPT !.mat = TRUE]

\* shape.reTagElementMap(obj->getID(), obj->getDocument()->getStringHasher())
ReTagged(shape) == [shape EXCEPT !.tag = Queried, !.hasher = HomeDoc]

\* lines 910-912
PythonWrites(in) ==
    \/ in.linkedDoc # HomeDoc
    \/ in.matScale
    \/ (in.linked = "other" /\ in.linkScale)

\* lines 987-995: the shape of the owner is in the cache; what is returned
\* and what is written under (obj, subname)
FromOwnerCache(in, sub, cached) ==
    LET moved == Transformed(cached)
    IN  IF in.ownerDoc # HomeDoc
        THEN [shape |-> ReTagged(moved),
              writes |-> <<[key |-> <<Queried, sub>>, shape |-> ReTagged(moved)]>>]
        ELSE IF in.matScale \/ (in.linked = "other" /\ in.linkScale)
        THEN [shape |-> moved,
              writes |-> <<[key |-> <<Queried, sub>>, shape |-> moved]>>]
        ELSE [shape |-> moved, writes |-> <<>>]

\* lines 1096-1107: the writes after the shape of the owner has been made,
\* and the shape returned
AfterCompute(in, sub, owner, made, cacheable) ==
    LET w1    == IF cacheable /\ canCache(in, owner)
                 THEN <<[key |-> <<owner, "">>, shape |-> made]>> ELSE <<>>
        moved == IF owner # Queried THEN Transformed(made) ELSE made
        cross == owner # Queried /\ in.ownerDoc # HomeDoc
        out   == IF cross THEN ReTagged(moved) ELSE moved
        w2    == IF owner # Queried /\ canCache(in, Queried)
                    /\ (in.matScale \/ cross)
                 THEN <<[key |-> <<Queried, sub>>, shape |-> out]>> ELSE <<>>
    IN  [shape |-> out, writes |-> w1 \o w2]

RECURSIVE Written(_, _)
Written(cache, writes) ==
    IF writes = <<>> THEN cache
    ELSE Written([cache EXCEPT ![Head(writes).key] = Head(writes).shape],
                 Tail(writes))

\* the end of a call: the cache after its writes, what it returned, and
\* whether the cache held a shape for the key when the call was made
TReturn(sub, needSubElement, noElementMap, path, shape, writes, computed) ==
    /\ t_cache' = Written(t_cache, writes)
    /\ t_res' = [sub |-> sub, needSubElement |-> needSubElement,
                 noElementMap |-> noElementMap, path |-> path,
                 ret |-> shape, writes |-> writes, computed |-> computed,
                 held |-> t_cache[<<Queried, sub>>] # NullShape]

\* one call _getTopoShape(obj, subname, needSubElement, ..., noElementMap,
\* hiddens, lastLink).  pyNull: the Python shape of the sub-object is null;
\* made: the linked object has a shape, or the sub-objects give one;
\* cacheable: line 1066 has not been reached
GetTopoShape(subname, needSubElement, noElementMap) ==
    /\ UNCHANGED <<hVars, sVars, cVars, fVars, oVars, rVars, gVars, eVars, xVars, t_in>>
    /\ \E pyNull \in (IF t_in.kind = "python" THEN BOOLEAN ELSE {FALSE}),
          made \in BOOLEAN :
       \E cacheable \in (IF made THEN BOOLEAN ELSE {TRUE}) :
        LET in     == t_in
            sub    == Stripped(subname, needSubElement)
            owner  == OwnerOf(sub)
            hit    == canCache(in, Queried) /\ t_cache[<<Queried, sub>>] # NullShape
            first  == IF hit THEN Returned(t_cache[<<Queried, sub>>], noElementMap)
                      ELSE NullShape
            python == owner = Child /\ in.kind = "python"
            datum  == owner = Child /\ in.kind \in {"line", "plane", "placement"}
            ownhit == owner # Queried /\ canCache(in, owner)
                        /\ t_cache[<<owner, "">>] # NullShape
            own    == FromOwnerCache(in, sub, t_cache[<<owner, "">>])
            link   == owner = Child /\ in.linked = "other"
            after  == AfterCompute(in, sub, owner, Tagged(in, owner),
                                   cacheable \/ link)
        IN  IF owner = Child /\ in.kind = "missing"
            THEN \* line 888
                 TReturn(sub, needSubElement, noElementMap, "no owner", first, <<>>, FALSE)
            ELSE IF hit
            THEN \* line 904
                 TReturn(sub, needSubElement, noElementMap, "hit", first, <<>>, FALSE)
            ELSE IF python /\ ~pyNull
            THEN \* lines 906-922
                 TReturn(sub, needSubElement, noElementMap, "python",
                    Returned(Transformed(Tagged(in, owner)), noElementMap),
                    IF canCache(in, Queried) /\ PythonWrites(in)
                    THEN <<[key |-> <<Queried, sub>>,
                            shape |-> Transformed(Tagged(in, owner))]>>
                    ELSE <<>>, FALSE)
            ELSE IF datum
            THEN \* lines 924-976
                 TReturn(sub, needSubElement, noElementMap, "datum",
                    [Transformed(Tagged(in, owner)) EXCEPT !.map = FALSE],
                    <<>>, FALSE)
            ELSE IF needSubElement /\ HasElement(sub)
            THEN \* lines 984-985
                 TReturn(sub, needSubElement, noElementMap, "element", NullShape, <<>>, FALSE)
            ELSE IF ownhit
            THEN \* lines 987-1003
                 TReturn(sub, needSubElement, noElementMap, "owner hit",
                    Returned(own.shape, noElementMap), own.writes, FALSE)
            ELSE IF ~made
            THEN \* lines 1017 and 1090
                 TReturn(sub, needSubElement, noElementMap, "nothing", NullShape, <<>>, TRUE)
            ELSE \* lines 1096-1113
                 TReturn(sub, needSubElement, noElementMap,
                    IF link THEN "linked" ELSE "compound",
                    Returned(after.shape, noElementMap), after.writes, TRUE)

\* the invalidation signal of the cache for one key
Invalidate(key) ==
    /\ UNCHANGED <<hVars, sVars, cVars, fVars, oVars, rVars, gVars, eVars, xVars, t_in>>
    /\ t_cache[key] # NullShape
    /\ t_cache' = [t_cache EXCEPT ![key] = NullShape]
    /\ t_res' = NoQuery

-----------------------------------------------------------------------------
(* Gui::SelectionSingleton (Selection.cpp).  Document "D1" holds the group  *)
(* "Grp" and its child "Box", document "D2" holds "Cyl"; "Gone" names no    *)
(* object.  Box carries an element map, Cyl does not.                       *)

MaxSel == 3        \* bound on the length of _SelList

DocNames == {"D1", "D2"}

ObjectsOf(doc) == IF doc = "D1" THEN {"Box", "Grp"} ELSE {"Cyl"}

\* the (document, object, sub-name) triples the calls are made with
SelArgs ==
    { [DocName |-> "D1", FeatName |-> "Box",  SubName |-> "Face1"],
      [DocName |-> "D1", FeatName |-> "Grp",  SubName |-> "Box.Face1"],
      [DocName |-> "D2", FeatName |-> "Cyl",  SubName |-> ""],
      [DocName |-> "D2", FeatName |-> "Gone", SubName |-> ""] }

\* pDoc->getObject(name): the object, or "null"
getObject(doc, name) == IF name \in ObjectsOf(doc) THEN name ELSE "null"

\* App::GeoFeature::resolveElement: the object a sub-name leads to, with the
\* mapped (new) and the indexed (old) element name
resolveElement(obj, subname) ==
    CASE obj = "null"            -> [obj |-> "null", new |-> "", old |-> ""]
      [] subname = "Box.Face1"   -> [obj |-> "Box", new |-> ";m.Face1", old |-> "Face1"]
      [] subname = "Face1"       -> [obj |-> obj,
                                     new |-> IF obj = "Box" THEN ";m.Face1" ELSE "",
                                     old |-> "Face1"]
      [] OTHER                   -> [obj |-> obj, new |-> "", old |-> ""]

NoObject == [obj |-> "null", sub |-> ""]

\* SelectionSingleton::getObjectOfType with typeId = App::DocumentObject
getObjectOfType(sel, resolve) ==
    LET pObject == getObject(sel.DocName, sel.FeatName)
        r       == resolveElement(pObject, sel.SubName)
        newElementName == IF r.new = "" THEN r.old ELSE r.new
    IN  IF pObject = "null" THEN NoObject
        ELSE IF resolve = 0 THEN [obj |-> pObject, sub |-> sel.SubName]
        ELSE IF r.obj = "null" THEN NoObject
        ELSE [obj |-> r.obj,
              sub |-> IF resolve > 1 THEN newElementName ELSE r.old]

\* the document an object lives in
DocumentOf(obj) == IF obj = "Cyl" THEN "D2" ELSE "D1"

NoGate == [kind |-> "none", resolve |-> 1]

\* the gates installed: one lets whole objects through, one faces only
Gates == { [kind |-> "whole", resolve |-> 1],
           [kind |-> "faces", resolve |-> 2] }

\* SelectionGate::allow(document, object, sub-element)
allow(gate, obj, subelement) ==
    /\ obj # "null"
    /\ IF gate.kind = "whole" THEN subelement = ""
       ELSE subelement \in {"Face1", ";m.Face1"}

\* whether the active gate lets the entry through, asked as addSelection asks
GateAllows(gate, sel) ==
    LET o == getObjectOfType(sel, gate.resolve)
    IN  allow(gate, o.obj, o.sub)

NoPreselection == [DocName |-> "", FeatName |-> "", SubName |-> ""]

NoCallYet == [op |-> "none", args |-> <<>>, ret |-> <<>>, added |-> <<>>]

GIdle ==
    /\ g_sel = <<>>
    /\ g_gate = NoGate
    /\ g_pre = NoPreselection
    /\ g_cur = NoPreselection
    /\ g_res = <<>>

\* the singleton after construction
GInit ==
    /\ g_sel = <<>>
    /\ g_gate = NoGate
    /\ g_pre = NoPreselection
    /\ g_cur = NoPreselection
    /\ g_res = NoCallYet

GOthers == UNCHANGED <<hVars, sVars, cVars, fVars, oVars, rVars, tVars, eVars, xVars>>

\* SelectionSingleton::isSelected(pDocName, pObjectName, pSubName)
isSelected(list, sel) == \E i \in 1..Len(list) : list[i] = sel

\* what rmvPreselect leaves of (DocName.., CurrentPreselection)
AfterRmvPreselect(pre, cur) ==
    IF pre.DocName = "" THEN [pre |-> pre, cur |-> cur]
    ELSE [pre |-> NoPreselection, cur |-> NoPreselection]

\* addSelection(pDocName, pObjectName, pSubName, x, y, z)
AddSelection(sel) ==
    /\ GOthers
    /\ UNCHANGED <<g_gate, g_pre, g_cur>>
    /\ IF isSelected(g_sel, sel)
       THEN /\ g_sel' = g_sel
            /\ g_res' = [op |-> "addSelection", args |-> <<sel>>,
                         ret |-> <<TRUE>>, added |-> <<>>]
       ELSE IF g_gate # NoGate /\ ~GateAllows(g_gate, sel)
       THEN /\ g_sel' = g_sel
            /\ g_res' = [op |-> "addSelection", args |-> <<sel>>,
                         ret |-> <<FALSE>>, added |-> <<>>]
       ELSE /\ Len(g_sel) < MaxSel
            /\ g_sel' = Append(g_sel, sel)
            /\ g_res' = [op |-> "addSelection", args |-> <<sel>>,
                         ret |-> <<TRUE>>, added |-> <<sel>>]

\* the lists of sub-names addSelection is called with for one object
SubNameLists ==
    { <<a>> : a \in SelArgs } \cup
    { <<p[1], p[2]>> : p \in { q \in SelArgs \X SelArgs :
                                /\ q[1].DocName = q[2].DocName
                                /\ q[1].FeatName = q[2].FeatName } }

\* addSelection(pDocName, pObjectName, pSubNames)
AddSelectionList(sels) ==
    /\ GOthers
    /\ UNCHANGED <<g_gate, g_pre, g_cur>>
    /\ Len(g_sel) + Len(sels) <= MaxSel
    /\ g_sel' = g_sel \o sels
    /\ g_res' = [op |-> "addSelectionList", args |-> sels,
                 ret |-> <<TRUE>>, added |-> sels]

\* pObject of an entry
PointerOf(sel) == getObject(sel.DocName, sel.FeatName)

\* the entries setSelection keeps, in their order
RECURSIVE KeptBySetSelection(_, _, _)
KeptBySetSelection(list, pcDoc, new_sel) ==
    IF list = <<>> THEN <<>>
    ELSE LET it == Head(list)
             keep == it.DocName # pcDoc \/ PointerOf(it) \in new_sel
         IN  (IF keep THEN <<it>> ELSE <<>>)
             \o KeptBySetSelection(Tail(list), pcDoc, new_sel)

\* the order of the objects in a std::set of pointers
AddressOf(obj) == CASE obj = "Box" -> 1 [] obj = "Grp" -> 2 [] OTHER -> 3

\* a set of objects as the vector std::set_difference gives
RECURSIVE InOrder(_)
InOrder(S) ==
    IF S = {} THEN <<>>
    ELSE LET x == CHOOSE y \in S : \A z \in S : AddressOf(y) <= AddressOf(z)
         IN  <<x>> \o InOrder(S \ {x})

\* setSelection(pDocName, sel)
SetSelection(pDocName, sel) ==
    LET cur_sel == { PointerOf(g_sel[i]) :
                        i \in { j \in 1..Len(g_sel) : g_sel[j].DocName = pDocName } }
        kept    == KeptBySetSelection(g_sel, pDocName, sel)
        fresh   == [ i \in 1..Cardinality(sel \ cur_sel) |->
                        [DocName |-> pDocName,
                         FeatName |-> InOrder(sel \ cur_sel)[i],
                         SubName |-> ""] ]
    IN  /\ GOthers
        /\ UNCHANGED <<g_gate, g_pre, g_cur>>
        /\ Len(kept) + Len(fresh) <= MaxSel
        /\ IF cur_sel = sel
           THEN /\ g_sel' = g_sel
                /\ g_res' = [op |-> "setSelection", args |-> <<pDocName, sel>>,
                             ret |-> <<>>, added |-> <<>>]
           ELSE /\ g_sel' = kept \o fresh
                /\ g_res' = [op |-> "setSelection", args |-> <<pDocName, sel>>,
                             ret |-> <<>>, added |-> fresh]

\* clearCompleteSelection()
ClearCompleteSelection ==
    /\ GOthers
    /\ UNCHANGED g_gate
    /\ g_sel # <<>> \/ g_pre # NoPreselection
    /\ g_pre' = AfterRmvPreselect(g_pre, g_cur).pre
    /\ g_cur' = AfterRmvPreselect(g_pre, g_cur).cur
    /\ g_sel' = <<>>
    /\ g_res' = [op |-> "clearCompleteSelection", args |-> <<>>,
                 ret |-> <<>>, added |-> <<>>]

\* addSelectionGate(gate, resolve); an active gate is removed first
AddSelectionGate(gate) ==
    /\ GOthers
    /\ UNCHANGED <<g_sel, g_pre, g_cur>>
    /\ g_gate' = gate
    /\ g_res' = [op |-> "addSelectionGate", args |-> <<gate>>,
                 ret |-> <<>>, added |-> <<>>]

\* rmvSelectionGate()
RmvSelectionGate ==
    /\ GOthers
    /\ UNCHANGED <<g_sel, g_pre, g_cur>>
    /\ g_gate # NoGate
    /\ g_gate' = NoGate
    /\ g_res' = [op |-> "rmvSelectionGate", args |-> <<>>,
                 ret |-> <<>>, added |-> <<>>]

\* the gate test of setPreselect: the object exists and the gate allows it
PreselectAllowed(gate, sel) ==
    LET r == resolveElement(getObject(sel.DocName, sel.FeatName), sel.SubName)
        subelement == IF gate.resolve > 1
                        THEN (IF r.new # "" THEN r.new ELSE r.old)
                      ELSE IF gate.resolve > 0 THEN r.old
                      ELSE sel.SubName
    IN  r.obj # "null" /\ allow(gate, r.obj, subelement)

\* CurrentPreselection as setPreselect leaves it
PreselectionSet(cur, sel) == cur

\* setPreselect(pDocName, pObjectName, pSubName, x, y, z, signal)
SetPreselect(sel, signal) ==
    LET before == AfterRmvPreselect(g_pre, g_cur)
    IN  /\ GOthers
        /\ UNCHANGED <<g_sel, g_gate>>
        /\ IF g_gate # NoGate /\ ~signal /\ ~PreselectAllowed(g_gate, sel)
           THEN /\ g_pre' = before.pre
                /\ g_cur' = before.cur
                /\ g_res' = [op |-> "setPreselect", args |-> <<sel, signal>>,
                             ret |-> <<FALSE>>, added |-> <<>>]
           ELSE /\ g_pre' = sel
                /\ g_cur' = PreselectionSet(before.cur, sel)
                /\ g_res' = [op |-> "setPreselect", args |-> <<sel, signal>>,
                             ret |-> <<TRUE>>, added |-> <<>>]

\* rmvPreselect()
RmvPreselect ==
    /\ GOthers
    /\ UNCHANGED <<g_sel, g_gate>>
    /\ g_pre' = AfterRmvPreselect(g_pre, g_cur).pre
    /\ g_cur' = AfterRmvPreselect(g_pre, g_cur).cur
    /\ g_res' = [op |-> "rmvPreselect", args |-> <<>>,
                 ret |-> <<>>, added |-> <<>>]

\* getPreselection()
getPreselection == g_cur

\* a variant that stops at the second qualifying entry and keeps the first
SecondFoundKeeps(temp, rest) == [temp |-> temp, rest |-> <<>>]

\* what the loop does at the second qualifying entry when single is set
SecondFound(temp, rest) == [temp |-> <<>>, rest |-> <<>>]

\* the loop of getSelection over _SelList: temp, with objMap
RECURSIVE SelectionLoop(_, _, _, _, _, _)
SelectionLoop(list, temp, objMap, pDocName, resolve, single) ==
    IF list = <<>> THEN temp
    ELSE LET sel == Head(list)
             o   == getObjectOfType(sel, resolve)
         IN  IF o.obj = "null" \/ (pDocName # "*" /\ DocumentOf(PointerOf(sel)) # pDocName)
               THEN SelectionLoop(Tail(list), temp, objMap, pDocName, resolve, single)
             ELSE IF resolve # 0 /\ o \in objMap
               THEN SelectionLoop(Tail(list), temp, objMap, pDocName, resolve, single)
             ELSE IF single /\ temp # <<>>
               THEN SelectionLoop(SecondFound(temp, Tail(list)).rest,
                                  SecondFound(temp, Tail(list)).temp,
                                  objMap, pDocName, resolve, single)
             ELSE SelectionLoop(Tail(list),
                                Append(temp, [DocName |-> DocumentOf(o.obj),
                                              FeatName |-> o.obj,
                                              SubName |-> o.sub]),
                                IF resolve # 0 THEN objMap \cup {o} ELSE objMap,
                                pDocName, resolve, single)

\* getSelection(pDocName, resolve, single)
GetSelection(pDocName, resolve, single) ==
    /\ GOthers
    /\ UNCHANGED <<g_sel, g_gate, g_pre, g_cur>>
    /\ g_res' = [op |-> "getSelection", args |-> <<pDocName, resolve, single>>,
                 ret |-> SelectionLoop(g_sel, <<>>, {}, pDocName, resolve, single),
                 added |-> <<>>]

-----------------------------------------------------------------------------
(* The element-snapshot cache of Part::Feature: registerElementCache and    *)
(* onBeforeChange.                                                          *)
(* Names are sequences of their parts: <<"P.", "Face1">> is "P.Face1".       *)

MaxVersion == 2    \* bound on the number of property changes
MaxRegistry == 1   \* bound on the length of _elementCachePrefixMap

\* the Shape property; a prefixed shape property goes by its prefix
ShapeProp == <<>>

\* the prefixes registered, and the properties that change
ElementPrefixes == {<<"P.">>, <<"Q.">>}
ShapeProps == {ShapeProp, <<"P.">>}

\* the element names the element references of the document may hold
ElementRefs == {<<"Face1">>, <<"P.", "Face1">>, <<"Face9">>}

\* what searchElementCache is asked for: a referenced element, the empty
\* name, or an element no reference names
SearchArgs == ElementRefs \cup {<<>>, <<"Edge7">>}

\* the options and tolerances of a search, as far as they change its result
SearchOptionSets == {"exact", "loose"}

\* boost::starts_with
starts_with(name, prefix) ==
    Len(prefix) <= Len(name) /\ SubSeq(name, 1, Len(prefix)) = prefix

\* a key that is not in _elementCache
NoSnapshot == [shape |-> <<<<"none">>, 0>>, searched |-> FALSE, names |-> <<>>]

\* a null TopoShape
NullSubShape == <<<<"null">>, 0>>

\* TopoShape::getSubTopoShape(element, silent = true) of a property's shape:
\* the shapes have a Face1 and no Face9
getSubTopoShape(prop, version, element) ==
    IF element = <<"Face1">> THEN <<prop, version>> ELSE NullSubShape

\* TopoShape::searchSubShape: the names of the elements of the property's
\* current shape that match the snapshot; a loose search finds more
searchSubShape(prop, version, snapshot, options) ==
    IF options = "exact" THEN << <<"Face1">> >>
    ELSE << <<"Face1">>, <<"Face2">> >>

NoElementCall == [op |-> "none", prop |-> ShapeProp, prefix |-> <<>>,
                  ret |-> <<>>, ran |-> FALSE, options |-> "",
                  before |-> 0, outcome |-> "returned"]

EIdle ==
    /\ e_registry = <<>>
    /\ e_cache = <<>>
    /\ e_shape = 0
    /\ e_res = <<>>

\* a feature with no prefix registered and an empty cache
EInit ==
    /\ e_registry = <<>>
    /\ e_cache = [k \in ElementRefs |-> NoSnapshot]
    /\ e_shape = [p \in ShapeProps |-> 0]
    /\ e_res = NoElementCall

EOthers == UNCHANGED <<hVars, sVars, cVars, fVars, oVars, rVars, tVars, gVars, xVars>>

\* the call in progress has returned
EReturned == e_res.outcome = "returned"

\* the registry without its i-th entry
EraseAt(registry, i) ==
    SubSeq(registry, 1, i - 1) \o SubSeq(registry, i + 1, Len(registry))

\* the loop of registerElementCache(prefix, nullptr): `it` stays at begin()
UnregisterLoop(registry, prefix) ==
    IF registry = <<>> THEN [registry |-> registry, outcome |-> "returned"]
    ELSE IF registry[1] = prefix
      THEN [registry |-> EraseAt(registry, 1), outcome |-> "returned"]
    ELSE [registry |-> registry, outcome |-> "loops"]

\* Feature::registerElementCache(prefix, prop)
RegisterElementCache(prefix, prop) ==
    /\ EOthers
    /\ EReturned
    /\ UNCHANGED <<e_cache, e_shape>>
    /\ IF prop
         THEN /\ Len(e_registry) < MaxRegistry
              /\ e_registry' = Append(e_registry, prefix)
              /\ e_res' = [op |-> "register", prop |-> ShapeProp, prefix |-> prefix,
                           ret |-> <<>>, ran |-> FALSE, options |-> "",
                  before |-> 0, outcome |-> "returned"]
         ELSE /\ e_registry' = UnregisterLoop(e_registry, prefix).registry
              /\ e_res' = [op |-> "unregister", prop |-> ShapeProp, prefix |-> prefix,
                           ret |-> <<>>, ran |-> FALSE, options |-> "",
                  before |-> 0,
                           outcome |-> UnregisterLoop(e_registry, prefix).outcome]

\* the keys present in _elementCache
CachedKeys(cache) == { k \in DOMAIN cache : cache[k] # NoSnapshot }

\* the `remove` decision of onBeforeChange for one entry; the prefix of the
\* Shape property is the null one
RemoveEntry(cache, registry, key, prefix) ==
    IF prefix # <<>> THEN starts_with(key, prefix)
    ELSE ~\E v \in CachedKeys(cache) : starts_with(key, v)

\* whether a referenced element gets a snapshot
TakesSnapshot(registry, element, prefix) ==
    IF prefix # <<>> THEN starts_with(element, prefix)
    ELSE ~\E i \in 1..Len(registry) : starts_with(element, registry[i])

\* _elementCache after onBeforeChange for propShape
AfterBeforeChange(cache, registry, propShape, prefix, version, refs, recording) ==
    LET swept == [k \in DOMAIN cache |->
                    IF registry = <<>> THEN NoSnapshot
                    ELSE IF cache[k] # NoSnapshot
                            /\ RemoveEntry(cache, registry, k, prefix)
                      THEN NoSnapshot
                    ELSE cache[k]]
    IN  [k \in DOMAIN cache |->
            IF /\ recording
               /\ k \in refs
               /\ TakesSnapshot(registry, k, prefix)
               /\ swept[k] = NoSnapshot
              THEN [shape |-> getSubTopoShape(propShape, version,
                                              SubSeq(k, Len(prefix) + 1, Len(k))),
                    searched |-> FALSE, names |-> <<>>]
            ELSE swept[k]]

\* Feature::onBeforeChange(prop), followed by the change of the property
OnBeforeChange(prop, refs, recording) ==
    LET registered == prop # ShapeProp /\ \E i \in 1..Len(e_registry) : e_registry[i] = prop
        prefix     == prop
    IN  /\ EOthers
        /\ EReturned
        /\ UNCHANGED e_registry
        /\ e_shape[ShapeProp] + e_shape[<<"P.">>] < MaxVersion
        /\ e_cache' = IF prop = ShapeProp \/ registered
                        THEN AfterBeforeChange(e_cache, e_registry, prop, prefix,
                                               e_shape[prop], refs, recording)
                      ELSE e_cache
        /\ e_shape' = [e_shape EXCEPT ![prop] = @ + 1]
        /\ e_res' = [op |-> "onBeforeChange", prop |-> prop, prefix |-> prefix,
                     ret |-> <<>>, ran |-> FALSE, options |-> "",
                  before |-> e_shape[prop], outcome |-> "returned"]

\* a variant that searches at every call
NeedsSearchAlways(entry) == TRUE

\* line 1362: the search is made for an entry not searched yet
NeedsSearch(entry) == ~entry.searched

\* lines 1363-1371: the property searched, by the first registered prefix the
\* element starts with
SearchedProp(registry, element) ==
    LET S == { i \in 1..Len(registry) : starts_with(element, registry[i]) }
    IN  IF S = {} THEN ShapeProp
        ELSE registry[CHOOSE i \in S : \A j \in S : i <= j]

\* lines 1372-1382: the names found, each with the prefix put in front
SearchedNames(registry, versions, element, snapshot, options) ==
    LET prop  == SearchedProp(registry, element)
        found == searchSubShape(prop, IF prop \in DOMAIN versions THEN versions[prop] ELSE 0,
                                snapshot, options)
    IN  [i \in 1..Len(found) |-> prop \o found[i]]

\* Feature::searchElementCache(element, options, tol, atol)
SearchElementCache(element, options) ==
    LET known == element # <<>> /\ element \in DOMAIN e_cache
                    /\ e_cache[element] # NoSnapshot
                    /\ e_cache[element].shape # NullSubShape
        ran   == known /\ NeedsSearch(e_cache[element])
        names == IF ~known THEN <<>>
                 ELSE IF ran THEN SearchedNames(e_registry, e_shape, element,
                                                e_cache[element].shape, options)
                 ELSE e_cache[element].names
    IN  /\ EOthers
        /\ EReturned
        /\ UNCHANGED <<e_registry, e_shape>>
        /\ e_cache' = IF ran
                        THEN [e_cache EXCEPT ![element].searched = TRUE,
                                             ![element].names = names]
                      ELSE e_cache
        /\ e_res' = [op |-> "search", prop |-> ShapeProp, prefix |-> element,
                     ret |-> names, ran |-> ran, options |-> options,
                     before |-> 0, outcome |-> "returned"]

-----------------------------------------------------------------------------
(* Part::Feature::recompute around PartDesign::Chamfer::execute             *)
(* (PartFeature.cpp 132-143, FeatureChamfer.cpp).  A shape is a record of   *)
(* the number of the setValue that stored it and whether it is valid.       *)

MaxShapes == 2     \* bound on the number of times Shape is set

\* ChamferTypeEnums: equal distance, two distances, distance and angle
ChamferTypes == 0 .. 2

\* the sizes floatSize admits, as far as validateParameters tells them apart
Sizes == {0, 1}

\* the angles floatAngle admits, as far as validateParameters tells them apart
Angles == {0, 45, 180}

\* Standard_Failure::GetMessageString
KernelMessages == {"", "command not done"}

StdReturn == [kind |-> "ok", Why |-> ""]

\* new App::DocumentObjectExecReturn(why)
ExecReturn(why) == [kind |-> "error", Why |-> why]

\* an exception that leaves the call
Thrown(type, what) == [kind |-> type, Why |-> what]

\* FeatureChamfer.cpp 231-255
validateParameters(chamferType, size, size2, angle) ==
    IF size <= 0 THEN ExecReturn("Size must be greater than zero")
    ELSE IF chamferType = 1 /\ size2 <= 0
      THEN ExecReturn("Size2 must be greater than zero")
    ELSE IF chamferType = 2 /\ (angle <= 0 \/ angle >= 180)
      THEN ExecReturn("Angle must be greater than 0 and less than 180")
    ELSE StdReturn

\* what the base feature and the kernel do in one execute: the base shape is
\* missing, the edge search throws or finds nothing, makEChamfer throws or
\* gives a null shape, the shape is invalid also after the fix, refine or
\* getSolid throws, or all goes well
KernelRuns ==
    [step : {"noBase", "noEdges", "null", "invalid", "made"}, msg : {""}]
    \cup [step : {"edgesThrow", "makeThrows", "solidThrows"}, msg : KernelMessages]

\* the Chamfer after construction, with the shape of an earlier recompute
XChamferInit ==
    /\ x_obj = [ChamferType |-> 0, Size |-> 1, Size2 |-> 1, Angle |-> 45,
                Shape |-> [set |-> 0, valid |-> TRUE]]
    /\ x_res = [op |-> "none", run |-> [step |-> "made", msg |-> ""],
                ret |-> StdReturn, before |-> [set |-> 0, valid |-> TRUE]]

XIdle ==
    /\ x_obj = <<>>
    /\ x_res = <<>>

XOthers == UNCHANGED <<hVars, sVars, cVars, fVars, oVars, rVars, tVars, gVars, eVars>>

\* Chamfer::execute, FeatureChamfer.cpp 110-183: the result (or the exception
\* that leaves it) and the Shape afterwards
ChamferExecute(obj, run) ==
    LET res == validateParameters(obj.ChamferType, obj.Size, obj.Size2, obj.Angle)
        made == [set |-> obj.Shape.set + 1, valid |-> run.step = "made"]
    IN  IF run.step = "noBase"
          \* the text stands for Base::Exception::what()
          THEN [ret |-> ExecReturn("No base shape"), Shape |-> obj.Shape]
        ELSE IF run.step = "edgesThrow"
          THEN [ret |-> Thrown("Standard_Failure", run.msg), Shape |-> obj.Shape]
        ELSE IF run.step = "noEdges"
          THEN [ret |-> ExecReturn("No edges specified"), Shape |-> obj.Shape]
        ELSE IF res # StdReturn
          THEN [ret |-> res, Shape |-> obj.Shape]
        ELSE IF run.step \in {"makeThrows", "solidThrows"}
          THEN [ret |-> ExecReturn(run.msg), Shape |-> obj.Shape]
        ELSE IF run.step = "null"
          THEN [ret |-> ExecReturn("Failed to create chamfer"), Shape |-> obj.Shape]
        ELSE IF run.step = "invalid"
          THEN [ret |-> ExecReturn("Resulting shape is invalid"), Shape |-> made]
        ELSE [ret |-> StdReturn, Shape |-> made]

\* a variant of the handler that hands the kernel's message on as it is
CaughtAsIs(why) == ExecReturn(why)

\* PartFeature.cpp 137-141: the handler for Standard_Failure
Caught(why) == ExecReturn(IF why = "" THEN "Unknown OCC exception" ELSE why)

\* Part::Feature::recompute, PartFeature.cpp 132-143
FeatureRecompute(obj, run) ==
    LET done == ChamferExecute(obj, run)
    IN  IF done.ret.kind = "Standard_Failure"
          THEN [ret |-> Caught(done.ret.Why), Shape |-> done.Shape]
          ELSE done

\* a property of the Chamfer is given a value
SetProperty(name, value) ==
    /\ XOthers
    /\ x_obj[name] # value
    /\ x_obj' = [x_obj EXCEPT ![name] = value]
    /\ x_res' = [x_res EXCEPT !.op = "set"]

\* Chamfer::execute called directly
Execute(run) ==
    /\ XOthers
    /\ x_obj.Shape.set < MaxShapes
    /\ x_obj' = [x_obj EXCEPT !.Shape = ChamferExecute(x_obj, run).Shape]
    /\ x_res' = [op |-> "execute", run |-> run,
                 ret |-> ChamferExecute(x_obj, run).ret, before |-> x_obj.Shape]

\* Feature::recompute called by the document
Recompute(run) ==
    /\ XOthers
    /\ x_obj.Shape.set < MaxShapes
    /\ x_obj' = [x_obj EXCEPT !.Shape = FeatureRecompute(x_obj, run).Shape]
    /\ x_res' = [op |-> "recompute", run |-> run,
                 ret |-> FeatureRecompute(x_obj, run).ret, before |-> x_obj.Shape]

-----------------------------------------------------------------------------
(* Gui::CommandManager: registerCallback, unregisterCallback and            *)
(* onInvokeCommand (Command.cpp 1968-2027).  _CallbackMap is a multimap     *)
(* from command name to callback; it is kept as the list of callbacks under *)
(* each name, in the order of their registration.  A callback is known by   *)
(* its id and by what it answers.                                           *)

MaxCallbacks == 3     \* bound on _CallbackId
MaxInvokeCount == 10  \* Command.cpp 2005

\* the names callbacks are registered under; "" stands for every command
CallbackNames == {"", "A", "B"}

\* the commands invoked
CommandNames == {"A", "B"}

\* CommandInvokeCount when onInvokeCommand is entered
InvokeDepths == {0, MaxInvokeCount - 1, MaxInvokeCount}

\* the CommandManager after construction
XCommandInit ==
    /\ x_obj = [CallbackMap |-> [n \in CallbackNames |-> <<>>], CallbackId |-> 0]
    /\ x_res = [op |-> "none", cmd |-> "", id |-> 0, depth |-> 0,
                called |-> <<>>, ret |-> TRUE]

\* Command.cpp 1968-1975
RegisterCallback(says, cmd) ==
    /\ XOthers
    /\ x_obj.CallbackId < MaxCallbacks
    /\ LET id == x_obj.CallbackId + 1
       IN  /\ x_obj' = [CallbackMap |-> [x_obj.CallbackMap EXCEPT
                            ![cmd] = Append(@, [id |-> id, says |-> says])],
                        CallbackId |-> id]
           /\ x_res' = [op |-> "register", cmd |-> cmd, id |-> id, depth |-> 0,
                        called |-> <<>>, ret |-> TRUE]

\* the list without the callback of the id
WithoutId(list, id) == SelectSeq(list, LAMBDA c : c.id # id)

\* Command.cpp 1977-1987
UnregisterCallback(id) ==
    LET found == \E n \in CallbackNames :
                     \E i \in 1 .. Len(x_obj.CallbackMap[n]) : x_obj.CallbackMap[n][i].id = id
    IN  /\ XOthers
        /\ x_obj' = [x_obj EXCEPT !.CallbackMap =
                         [n \in CallbackNames |-> WithoutId(x_obj.CallbackMap[n], id)]]
        /\ x_res' = [op |-> "unregister", cmd |-> "", id |-> id, depth |-> 0,
                     called |-> <<>>, ret |-> found]

\* the callbacks of the list that a loop calls, which returns at the first
\* one that answers false
CalledOf(list) ==
    IF \E i \in 1 .. Len(list) : ~list[i].says
      THEN SubSeq(list, 1, CHOOSE i \in 1 .. Len(list) :
                               /\ ~list[i].says
                               /\ \A j \in 1 .. i - 1 : list[j].says)
      ELSE list

\* whether a callback of the list answered false
Vetoed(list) == \E i \in 1 .. Len(list) : ~list[i].says

\* Command.cpp 2008-2010: _CallbackMap.find(cmd) finds an entry
Found(map, cmd) == map[cmd] # <<>>

\* Command.cpp 2002-2027: the callbacks called, in order, and the result
InvokeResult(map, cmd, depth) ==
    IF depth + 1 > MaxInvokeCount THEN [called |-> <<>>, ret |-> TRUE]
    ELSE IF ~Found(map, cmd) THEN [called |-> <<>>, ret |-> TRUE]
    ELSE LET named == IF cmd # "" THEN map[cmd] ELSE <<>>
         IN  IF Vetoed(named)
               THEN [called |-> CalledOf(named), ret |-> FALSE]
               ELSE [called |-> named \o CalledOf(map[""]), ret |-> ~Vetoed(map[""])]

\* CommandManager::onInvokeCommand
OnInvokeCommand(cmd, depth) ==
    /\ XOthers
    /\ x_obj' = x_obj
    /\ x_res' = [op |-> "invoke", cmd |-> cmd, id |-> 0, depth |-> depth,
                 called |-> InvokeResult(x_obj.CallbackMap, cmd, depth).called,
                 ret |-> InvokeResult(x_obj.CallbackMap, cmd, depth).ret]

-----------------------------------------------------------------------------
(* Part::FilletBase: onChanged, onDocumentRestored, syncEdgeLink and        *)
(* onUpdateElementReference (PartFeature.cpp 1886-1935).  An entry of Edges *)
(* is its edgeid; a sub-name of EdgeLinks is a pair of element type and     *)
(* index, <<"Edge", 2>> for "Edge2".  The feature is in its document.       *)

MaxEdges == 2      \* bound on the length of Edges and of EdgeLinks' sub-names

\* the objects Base and EdgeLinks can point to; 0 is no object
BaseObjects == 0 .. 1

EdgeIds == 1 .. 2

\* "Edge2" and a sub-name that is no edge name
LinkSubs == {<<"Edge", 2>>, <<"Face", 1>>}

\* all lists over the set of at most MaxEdges entries
ListsOf(S) == UNION {[1 .. n -> S] : n \in 0 .. MaxEdges}

\* EdgeLinks.setValue(0)
NoLink == [obj |-> 0, subs |-> <<>>]

\* the feature as Document::addObject leaves it
XFilletInit ==
    /\ x_obj = [Base |-> 0, Edges |-> <<>>, EdgeLinks |-> NoLink, User3 |-> FALSE,
                document |-> TRUE, restoring |-> FALSE]
    /\ x_res = [op |-> "none", prop |-> "", restoring |-> FALSE, before |-> NoLink,
                edges |-> <<>>]

\* line 1902-1912
syncEdgeLink(obj) ==
    IF obj.Base = 0 \/ Len(obj.Edges) = 0
      THEN [obj EXCEPT !.EdgeLinks = NoLink]
      ELSE [obj EXCEPT !.EdgeLinks =
                [obj |-> obj.Base,
                 subs |-> [i \in 1 .. Len(obj.Edges) |-> <<"Edge", obj.Edges[i]>>]]]

\* a variant of the test of line 1889 that never finds the flag
testStatusNever(obj, prop) == FALSE

\* prop->testStatus(App::Property::User3), line 1889; the flag is only ever
\* set on Edges
testStatus(obj, prop) == prop = "Edges" /\ obj.User3

\* line 1886-1894
onChanged(obj, prop) ==
    IF obj.document /\ ~obj.restoring /\ prop \in {"Edges", "Base"}
                    /\ ~testStatus(obj, prop)
      THEN syncEdgeLink(obj)
      ELSE obj

\* sscanf(sub, "Edge%d", &idx), idx being 0 before
sscanfEdge(sub) == IF sub[1] = "Edge" THEN sub[2] ELSE 0

\* line 1917-1931: the values with the edge ids read from the sub-names
UpdatedValues(values, subs) ==
    [i \in 1 .. Len(values) |->
        IF i <= Len(subs) /\ sscanfEdge(subs[i]) # 0 THEN sscanfEdge(subs[i])
        ELSE values[i]]

\* line 1914-1935
onUpdateElementReference(obj, prop) ==
    IF prop # "EdgeLinks" \/ ~obj.document THEN obj
    ELSE LET flagged == [obj EXCEPT !.User3 = TRUE]
             written == [flagged EXCEPT
                            !.Edges = UpdatedValues(obj.Edges, obj.EdgeLinks.subs)]
         IN  [onChanged(written, "Edges") EXCEPT !.User3 = FALSE]

FilletCall(op, prop) ==
    [op |-> op, prop |-> prop, restoring |-> x_obj.restoring,
     before |-> x_obj.EdgeLinks, edges |-> x_obj.Edges]

\* Edges.setValues(values) by the user
SetEdges(values) ==
    /\ XOthers
    /\ x_obj' = onChanged([x_obj EXCEPT !.Edges = values], "Edges")
    /\ x_res' = FilletCall("set", "Edges")

\* Base.setValue(base) by the user
SetBase(base) ==
    /\ XOthers
    /\ x_obj' = onChanged([x_obj EXCEPT !.Base = base], "Base")
    /\ x_res' = FilletCall("set", "Base")

\* EdgeLinks is written, as the update of element references does
SetEdgeLinks(base, subs) ==
    /\ XOthers
    /\ x_obj' = onChanged([x_obj EXCEPT !.EdgeLinks = [obj |-> base, subs |-> subs]],
                          "EdgeLinks")
    /\ x_res' = FilletCall("set", "EdgeLinks")

\* the document enters or leaves App::Document::Restoring
SetRestoring(flag) ==
    /\ XOthers
    /\ x_obj.restoring # flag
    /\ x_obj' = [x_obj EXCEPT !.restoring = flag]
    /\ x_res' = FilletCall("status", "")

\* line 1896-1900
OnDocumentRestored ==
    /\ XOthers
    /\ x_obj' = IF x_obj.EdgeLinks.subs = <<>> THEN syncEdgeLink(x_obj) ELSE x_obj
    /\ x_res' = FilletCall("restored", "")

\* FilletBase::onUpdateElementReference(prop)
OnUpdateElementReference(prop) ==
    /\ XOthers
    /\ x_obj' = onUpdateElementReference(x_obj, prop)
    /\ x_res' = FilletCall("update", prop)

-----------------------------------------------------------------------------
(* Specifications *)

HNext == HistoryStep /\ UNCHANGED <<sVars, cVars, fVars, rVars, tVars, gVars, eVars, xVars>>

InitHistory == HInit /\ SIdle /\ CIdle /\ FIdle /\ RIdle /\ TIdle /\ OInit /\ GIdle /\ EIdle /\ XIdle
SpecHistory == InitHistory /\ [][HNext]_vars

SNext == SourceStep /\ UNCHANGED <<hVars, cVars, fVars, imap, rVars, tVars, gVars, eVars, xVars>>

InitSource == SInit /\ HIdle /\ CIdle /\ FIdle /\ RIdle /\ TIdle /\ OInit /\ GIdle /\ EIdle /\ XIdle
SpecSource == InitSource /\ [][SNext]_vars

CNext ==
    \/ \E h \in Higher \cup {AbsentIndex} : ExportIndexName(h)
    \/ \E h \in Higher : ExportMappedName(h)
    \/ \E h \in Higher : ExportMappedNameRebuilt(h)
    \/ \E h \in Higher : ExportMappedNameChanged(h)
    \/ \E h \in Higher : ExportIndexNameRebuilt(h)

InitCombo == CInit /\ HIdle /\ SIdle /\ FIdle /\ RIdle /\ TIdle /\ OIdle /\ GIdle /\ EIdle /\ XIdle
SpecCombo == InitCombo /\ [][CNext]_vars

FNext ==
    \/ FEnter
    \/ FCheckHistory
    \/ FTraceEnds
    \/ FSearch

InitFromSource == FInit /\ HIdle /\ SIdle /\ CIdle /\ RIdle /\ TIdle /\ OIdle /\ GIdle /\ EIdle /\ XIdle
SpecFromSource == InitFromSource /\ [][FNext]_vars

RNext == \E name \in QueryNames, sameType \in BOOLEAN, withCache \in BOOLEAN :
            GetRelatedElements(name, sameType, withCache)

InitRelated == RInit /\ HIdle /\ SIdle /\ CIdle /\ FIdle /\ TIdle /\ OIdle /\ GIdle /\ EIdle /\ XIdle
SpecRelated == InitRelated /\ [][RNext]_vars

TNext ==
    \/ \E sub \in Subnames, needSubElement \in BOOLEAN, noElementMap \in BOOLEAN :
            GetTopoShape(sub, needSubElement, noElementMap)
    \/ \E key \in CacheKeys : Invalidate(key)

InitTopo == TInit /\ HIdle /\ SIdle /\ CIdle /\ FIdle /\ RIdle /\ OIdle /\ GIdle /\ EIdle /\ XIdle
SpecTopo == InitTopo /\ [][TNext]_vars

\* the selection list under a gate
GNext ==
    \/ \E sel \in SelArgs : AddSelection(sel)
    \/ \E sels \in SubNameLists : AddSelectionList(sels)
    \/ \E doc \in DocNames : \E sel \in SUBSET ObjectsOf(doc) : SetSelection(doc, sel)
    \/ ClearCompleteSelection
    \/ \E gate \in Gates : AddSelectionGate(gate)
    \/ RmvSelectionGate
    \/ \E doc \in {"*", "D1"}, resolve \in 0..2, single \in BOOLEAN :
            GetSelection(doc, resolve, single)

InitSelection == GInit /\ HIdle /\ SIdle /\ CIdle /\ FIdle /\ RIdle /\ TIdle /\ OIdle /\ EIdle /\ XIdle
SpecSelection == InitSelection /\ [][GNext]_vars

ENext ==
    \/ \E prefix \in ElementPrefixes, prop \in BOOLEAN : RegisterElementCache(prefix, prop)
    \/ \E prop \in ShapeProps, refs \in SUBSET ElementRefs, recording \in BOOLEAN :
            OnBeforeChange(prop, refs, recording)
    \/ \E element \in SearchArgs, options \in SearchOptionSets :
            SearchElementCache(element, options)

InitElementCache == EInit /\ HIdle /\ SIdle /\ CIdle /\ FIdle /\ RIdle /\ TIdle /\ OIdle /\ GIdle /\ XIdle
SpecElementCache == InitElementCache /\ [][ENext]_vars

\* the preselection under a gate
PNext ==
    \/ \E sel \in SelArgs, signal \in BOOLEAN : SetPreselect(sel, signal)
    \/ RmvPreselect
    \/ ClearCompleteSelection
    \/ \E gate \in Gates : AddSelectionGate(gate)
    \/ RmvSelectionGate
    \/ \E sel \in SelArgs : AddSelection(sel)

SpecPreselect == InitSelection /\ [][PNext]_vars

XChamferNext ==
    \/ \E t \in ChamferTypes : SetProperty("ChamferType", t)
    \/ \E v \in Sizes : SetProperty("Size", v)
    \/ \E v \in Sizes : SetProperty("Size2", v)
    \/ \E a \in Angles : SetProperty("Angle", a)
    \/ \E run \in KernelRuns : Execute(run)
    \/ \E run \in KernelRuns : Recompute(run)

InitChamfer == XChamferInit /\ HIdle /\ SIdle /\ CIdle /\ FIdle /\ RIdle /\ TIdle /\ OIdle /\ GIdle /\ EIdle
SpecChamfer == InitChamfer /\ [][XChamferNext]_vars

XCommandNext ==
    \/ \E says \in BOOLEAN, cmd \in CallbackNames : RegisterCallback(says, cmd)
    \/ \E id \in 1 .. MaxCallbacks : UnregisterCallback(id)
    \/ \E cmd \in CommandNames, depth \in InvokeDepths : OnInvokeCommand(cmd, depth)

InitCommand == XCommandInit /\ HIdle /\ SIdle /\ CIdle /\ FIdle /\ RIdle /\ TIdle /\ OIdle /\ GIdle /\ EIdle
SpecCommand == InitCommand /\ [][XCommandNext]_vars

XFilletNext ==
    \/ \E values \in ListsOf(EdgeIds) : SetEdges(values)
    \/ \E base \in BaseObjects : SetBase(base)
    \/ \E base \in BaseObjects \ {0}, subs \in ListsOf(LinkSubs) : SetEdgeLinks(base, subs)
    \/ \E flag \in BOOLEAN : SetRestoring(flag)
    \/ OnDocumentRestored
    \/ \E prop \in {"Edges", "Base", "EdgeLinks"} : OnUpdateElementReference(prop)

InitFillet == XFilletInit /\ HIdle /\ SIdle /\ CIdle /\ FIdle /\ RIdle /\ TIdle /\ OIdle /\ GIdle /\ EIdle
SpecFillet == InitFillet /\ [][XFilletNext]_vars

-----------------------------------------------------------------------------
(* Claims *)

\* C1: Feature::getElementHistory terminates for every feature graph and
\* element map, cyclic generator tags included: the recursive walk never comes
\* back to a loop state it has already been in.
C1_HistoryTerminates == ~HistoryLoops

\* the walk came back to an element of another feature it had left
C1_TwoFeatureCycle ==
    HistoryLoops /\ \E x \in h_seen : x[1] # h_feature

\* C2: getElementSource terminates on every element map: its visited set stops
\* every circular mapping, so the trace never comes back to a loop state it has
\* already been in.
C2_SourceTerminates == ~SourceLoops

\* the trace repeats a step that maps a name to itself under the tag of the
\* step before
C2_SelfMapped ==
    /\ SourceLoops
    /\ Len(s_ret) >= 2
    /\ s_ret[Len(s_ret)] = s_ret[Len(s_ret) - 1]

\* C6: when the walk of getElementHistory ends at a step whose generator tag is
\* non-zero and whose producing feature no longer exists, the last record of
\* the returned list carries that generator tag, in recursive mode too.
C6_LostTagInLastRecord ==
    (h_pc = "done" /\ h_lost # 0) => h_ret[Len(h_ret)].tag = h_lost

\* a recursive walk that lost the producer after at least one full step
C6_LostInRecursiveWalk ==
    h_pc = "done" /\ h_recursive /\ h_lost # 0 /\ Len(h_ret) > 1

\* C3: a combo name synthesized for a higher element resolves back to that
\* element, whether the element map holds the name (direct) or the name is
\* decoded against the rebuilt shape.
C3_RoundTrip ==
    c_res.call \in {"direct", "decode"} => c_res.index = c_res.h

\* a round trip through decoding that fails although no other higher element
\* could be given the same name
C3_DecodeFailsAlone ==
    /\ c_res.call = "decode"
    /\ c_res.index # c_res.h
    /\ \A k \in Higher \ {c_res.h} :
         ComboName(Synthesis(c_lower, k).names,
                   Synthesis(c_lower, k).op) # c_res.name

\* C4: two distinct higher elements whose combo names list the same lower
\* names carry different disambiguation suffixes, however many lower
\* elements they have.
C4_SuffixesDiffer ==
    \A h1, h2 \in Higher :
        (h1 # h2 /\ c_rev[h1] # NoCombo /\ c_rev[h2] # NoCombo
            /\ c_rev[h1].names = c_rev[h2].names)
        => c_rev[h1].op # c_rev[h2].op

\* two higher elements named by the same fewer-than-MaxLowerTopoNames lower
\* names
C4_SameShortNames ==
    \E h1, h2 \in Higher :
        /\ h1 # h2 /\ c_rev[h1] # NoCombo /\ c_rev[h1] = c_rev[h2]
        /\ Len(c_rev[h1].names) < MaxLowerTopoNames

C7_FixedOrder ==
    /\ (\E k \in 1 .. Len(f_res) : f_res[k].via = "shortcut")
        => (f_pc = "done" /\ f_search = 0 /\ f_scans = 0)
    /\ (\E k \in 1 .. Len(f_res) : f_res[k].via = "search")
        => (f_pc = "done" /\ f_scans = 0)

\* the shortcut found a result and the function returned at once
C7_ShortcutReturned ==
    /\ f_pc = "done"
    /\ Len(f_res) = 1
    /\ f_res[1].via = "shortcut"
    /\ f_search = 0

\* C8 as stated: the shortcut reports a match only at a step where the tag
\* has matched (now or before) and the name matches.
C8_TagAndName ==
    \A k \in 1 .. Len(f_res) :
        f_res[k].via = "shortcut" => (f_res[k].tag # 0 /\ f_res[k].name)

\* the shortcut reported a name match reached before any tag match
C8_MatchWithoutTag ==
    \E k \in 1 .. Len(f_res) :
        f_res[k].via = "shortcut" /\ f_res[k].name /\ f_res[k].tag = 0

\* C9: an exception of the kernel during the geometric search or the trace
\* of one candidate does not leave getElementFromSource.
C9_NoEscape == f_pc # "threw"

\* the kernel threw in the geometric search after a shortcut trace that
\* found nothing
C9_ThrewInSearch ==
    f_pc = "threw" /\ f_search = 1 /\ ShortcutApplies(f_in)

\* C10: no call of getElementFromSource dereferences a null object, the
\* owner left null by getTopoShape included.
C10_NoNullOwner == f_pc # "crashed"

\* the scan reached a callback although the owner was left null
C10_NullOwnerInScan ==
    f_pc = "crashed" /\ f_in.owner = NoObj /\ f_search = 1

\* the cases in which nothing names higher element h: no such element, a kind
\* not named by lower elements, or no lower element with a mapped name
NoNameCase(h) ==
    \/ h \notin Higher
    \/ LowerKind(c_kind) = "Shape"
    \/ \A i \in 1 .. Len(c_lower) : h \in c_lower[i].anc => ~c_lower[i].named

\* C11: for a null sub-shape, a kind that is not wire/shell/solid/compound/
\* comp-solid, or an element none of whose lower elements has a mapped name,
\* getExportElementName returns no name and the element map holds none.
C11_NoNameNoStore ==
    /\ \A h \in Higher : NoNameCase(h) => c_rev[h] = NoCombo
    /\ (c_res.call = "name" /\ NoNameCase(c_res.h)) => c_res.name = NoCombo

\* a call for a wire that has edges, none of them named
C11_UnnamedWireAsked ==
    /\ c_res.call = "name"
    /\ c_res.h \in Higher
    /\ c_kind = "Wire"
    /\ \E i \in 1 .. Len(c_lower) : c_res.h \in c_lower[i].anc
    /\ NoNameCase(c_res.h)

\* the named lower elements of higher element h
NamedLowers(h) ==
    { i \in 1 .. Len(c_lower) : h \in c_lower[i].anc /\ c_lower[i].named }

\* C12 as stated: every stored combo name is made of at least
\* MinLowerTopoNames and at most MaxLowerTopoNames lower names.
C12_BetweenMinAndMax ==
    \A h \in Higher :
        c_rev[h] # NoCombo
        => /\ Len(c_rev[h].names) >= MinLowerTopoNames
           /\ Len(c_rev[h].names) <= MaxLowerTopoNames

\* C12 amended: every stored combo name is made of at most MaxLowerTopoNames
\* lower names, and of at least MinLowerTopoNames of them unless the element
\* has fewer named lower elements, in which case of all of those.
C12_MinWhereAvailable ==
    \A h \in Higher :
        c_rev[h] # NoCombo
        => /\ Len(c_rev[h].names) <= MaxLowerTopoNames
           /\ Len(c_rev[h].names) >=
                (IF Cardinality(NamedLowers(h)) < MinLowerTopoNames
                 THEN Cardinality(NamedLowers(h)) ELSE MinLowerTopoNames)

\* a stored name of an element with fewer than MinLowerTopoNames named lower
\* elements: it is made of all of them
C12_ShortName ==
    \E h \in Higher :
        /\ c_rev[h] # NoCombo
        /\ Cardinality(NamedLowers(h)) < MinLowerTopoNames
        /\ Len(c_rev[h].names) = Cardinality(NamedLowers(h))

\* the shape the last decoding call looked the names up in
DecodedIn == IF c_res.call = "changed" THEN c_res.lower ELSE c_lower

\* the higher elements that are ancestors of every lower element named in
\* names, all of them resolving in lower
CommonAncestors(lower, names) ==
    { a \in Higher : \A k \in 1 .. Len(names) :
        /\ LowerIndex(lower, names[k]) # 0
        /\ a \in lower[LowerIndex(lower, names[k])].anc }

\* the element the claim has decoding assign: the one common ancestor, or
\* among several the one the suffix counts to; 0 for none
Designated(lower, combo) ==
    LET q   == SelectSeq(HigherSeq, LAMBDA a : a \in CommonAncestors(lower, combo.names))
        idx == ParseIndexOp(combo.op)
    IN  IF Len(q) = 1 THEN q[1]
        ELSE IF Len(q) > 1 /\ idx >= 0 /\ idx < Len(q) THEN q[idx + 1]
        ELSE 0

\* C13: decoding assigns an index only to the one element left after
\* intersecting the ancestors of all encoded lower elements and, among
\* several, applying the index suffix; that element is an ancestor of every
\* encoded lower element, and none is assigned when a name does not resolve.
C13_DecodeSelects ==
    (c_res.call \in {"decode", "changed"} /\ c_res.index # 0)
    => c_res.index = Designated(DecodedIn, c_res.name)

\* a name with the suffix of the second candidate decoded to the first one
C13_SuffixIgnored ==
    /\ c_res.call = "decode"
    /\ c_res.name.op = IndexOp(1)
    /\ c_res.index = 1
    /\ c_res.h = 2

\* the record of h_ret at position k has an intermediate name of another
\* kind than the name the walk started from
StepOfOtherKind(k) ==
    InterTypeDiffers(h_ret[k].inter, StartType(h_sameType, h_start))

\* C14: with sameType set, getElementHistory returns at the first step that
\* has an intermediate name of another kind than the start, with the records
\* made so far and no record for the original name of that step, for
\* recursive walks and for single steps alike.
C14_StopsAtOtherKind ==
    (h_pc = "done" /\ h_sameType)
    => \A k \in 1 .. Len(h_ret) : StepOfOtherKind(k) => k = Len(h_ret)

\* a single step with an intermediate name of another kind, and the record
\* of its original name after it
C14_SingleStepAppends ==
    /\ h_pc = "done"
    /\ h_sameType
    /\ ~h_recursive
    /\ Len(h_ret) = 2
    /\ StepOfOtherKind(1)

\* the element-map entry the step taken from this state has read
StepEntry == emap'[<<h_feature, h_element>>]

\* C15: with recursive unset getElementHistory makes exactly one generation
\* step and returns exactly two records, the start record and a record with
\* the producing feature (or none), the original name and the generator tag;
\* with recursive set the walk ends at the first step whose tag is 0.
C15_OneStepOrToTagZero ==
    [][h_pc = "loop" =>
        /\ ~h_recursive =>
            /\ h_pc' = "done"
            /\ Len(h_ret) = 0
            /\ Len(h_ret') = 2
            /\ h_ret'[1].obj = h_feature
            /\ h_ret'[1].element = h_start
            /\ h_ret'[2].obj = (IF StepEntry.tag # 0
                                THEN getObjectByID(abs(StepEntry.tag))
                                ELSE NoObj)
            /\ h_ret'[2].element = StepEntry.orig
            /\ h_ret'[2].tag = StepEntry.tag
        /\ (h_recursive /\ StepEntry.tag = 0) =>
            /\ h_pc' = "done"
            /\ Len(h_ret') = Len(h_ret) + 1]_vars

\* a single step that found the producing feature
C15_SingleStepFound ==
    /\ h_pc = "done"
    /\ ~h_recursive
    /\ Len(h_ret) = 2
    /\ h_ret[2].tag # 0
    /\ h_ret[2].obj \in Features
    /\ h_ret[2].element # NoName

\* tagChanges as the next callback of the running trace finds it
TagChangesNow == IF f_steps = 0 THEN 0 ELSE f_tagChanges

\* this step is the return of traceElement to getElementFromSource
TraceReturned ==
    f_pc \in {"shortcut", "scan"} /\ f_pc' \notin {"crashed", "threw"} /\ f_steps' = 0

\* this step is a callback that counted its tag up to n
CountedTo(n) ==
    f_pc \in {"shortcut", "scan"} /\ TagChangesNow = n - 1 /\ f_tagChanges' = n

\* C16: after a tag match the steps of up to 3 further non-matching tags are
\* still compared against the source name, and the trace is stopped after
\* that: a third such step ends the trace only by reporting a match.
C16_ThreeFurtherCompared ==
    [][/\ f_tagChanges' <= 5
       /\ \A n \in 1 .. 4 :
            (CountedTo(n) /\ TraceReturned) => Len(f_res') = Len(f_res) + 1]_vars

\* C16 as the code has it: the first and the second step with another tag
\* after a tag match are compared, the third one stops the trace uncompared.
C16_TwoFurtherCompared ==
    [][/\ f_tagChanges' <= 4
       /\ \A n \in 1 .. 3 :
            (CountedTo(n) /\ TraceReturned) => Len(f_res') = Len(f_res) + 1
       /\ CountedTo(4) => (TraceReturned /\ f_res' = f_res)]_vars

\* a trace was cut at the third step with another tag
C16_CutAtThird == f_tagChanges = 4

\* the elements of the result, in the order returned
ResultElements == [k \in 1 .. Len(f_res) |-> f_res[k].element]

\* C17: with single set getElementFromSource returns at most one element on
\* every path; without it the geometric search returns one element per name
\* found, in that order, and the scan at most one element per scanned index,
\* in increasing index order.  The shortcut returns its one match.
C17_SingleOrOrdered ==
    /\ f_in.single => Len(f_res) <= 1
    /\ \A k \in 1 .. Len(f_res) :
        /\ f_res[k].via = f_res[1].via
        /\ f_res[k].via = "shortcut" => Len(f_res) = 1
        /\ f_res[k].via = "search" =>
            \E names \in SearchNames \ {<<>>} :
                ResultElements = (IF f_in.single THEN <<names[1]>> ELSE names)
        /\ f_res[k].via = "scan" =>
            /\ f_res[k].element \in 1 .. f_i
            /\ \A j \in 1 .. k - 1 : f_res[j].element < f_res[k].element

\* a scan without single that returned two elements
C17_ScanFoundTwo ==
    /\ f_pc = "done"
    /\ ~f_in.single
    /\ Len(f_res) = 2
    /\ f_res[1].via = "scan"

\* the names a name comes from, back to its origin
AncestorsOf(n) ==
    LET chain == getElementSourceNames(r_in.orig, <<n>>, "0")
    IN  { chain[k] : k \in 2 .. Len(chain) }

\* the other elements of the shape of the kind of n that have an ancestor
\* in common with n
Siblings(n) ==
    LET subs == SubShapes(r_in.shape, elementType(n))
    IN  { e \in { subs[i] : i \in 1 .. Len(subs) } \ {Unmapped} :
            e # n /\ AncestorsOf(e) \cap AncestorsOf(n) # {} }

\* the names of the elements the last call returned
ReturnedNames == { r_res.ret[k].name : k \in 1 .. Len(r_res.ret) }

\* C18: asked about an element the current shape has, getRelatedElements
\* returns the elements of the same kind that share an ancestor with it, not
\* only the element asked about.
C18_ReturnsSiblings ==
    (r_res.name # NoName /\ getIndexedName(r_in.shape, r_res.name) # 0)
    => Siblings(r_res.name) \subseteq ReturnedNames

\* an element with a sibling was asked about and came back alone
C18_OnlyItself ==
    /\ r_res.name = "Fq"
    /\ Siblings("Fq") # {}
    /\ r_res.ret = <<MappedElement(r_in.shape, "Fq")>>

\* the source chain of the element the last call asked about
QueriedChain ==
    getElementSourceNames(r_in.orig, <<r_res.name>>,
        IF r_res.sameType THEN elementType(r_res.name) ELSE "0")

\* the number of names over which the chain of element e agrees with the
\* queried chain, counted from the origin ends
AgreedRun(e) ==
    LET src == getElementSourceNames(r_in.orig, <<e>>,
                    IF r_res.sameType THEN elementType(r_res.name) ELSE "0")
        n   == IF Len(src) < Len(QueriedChain) THEN Len(src) ELSE Len(QueriedChain)
        agree == { k \in 0 .. n : \A j \in 0 .. k - 1 :
                    src[Len(src) - j] = QueriedChain[Len(QueriedChain) - j] }
    IN  CHOOSE k \in agree : \A m \in agree : m <= k

\* the elements of the current shape of the kind asked about
SameKind ==
    LET subs == SubShapes(r_in.shape, elementType(r_res.name))
    IN  { subs[i] : i \in 1 .. Len(subs) } \ {Unmapped}

\* the last call asked about a name of a known kind, and the shape has none
\* of the names of its source chain
ChainAbsent ==
    /\ r_res.name # NoName
    /\ elementType(r_res.name) # "0"
    /\ \A k \in 1 .. Len(QueriedChain) :
            getIndexedName(r_in.shape, QueriedChain[k]) = 0

\* C19: when the shape has no name of the queried element's source chain,
\* getRelatedElements returns exactly the elements of the same kind whose
\* chain agrees with the queried chain over the longest run of names from the
\* origin; elements that agree over a shorter run or over none are left out.
C19_LongestRun ==
    ChainAbsent =>
        /\ ReturnedNames =
                { e \in SameKind : /\ AgreedRun(e) >= 1
                                   /\ \A o \in SameKind : AgreedRun(o) <= AgreedRun(e) }
        /\ Cardinality(ReturnedNames) = Len(r_res.ret)

\* one element agrees over two names and is returned, another agrees over
\* one only and is left out
C19_ShorterRunLeftOut ==
    /\ ChainAbsent
    /\ r_res.ret # <<>>
    /\ \E e \in SameKind : AgreedRun(e) = 1 /\ e \notin ReturnedNames

\* the element and sameType of the call made by this step
CalledFor == <<r_res'.name, r_res'.sameType>>

\* C20: the results of getRelatedElements are kept per element and sameType.
\* A call with withCache that finds the entry returns the list stored there
\* and traces nothing; a call without withCache computes and stores its list
\* whatever the entry holds; no call touches the entry of another element or
\* of the other sameType.  (A name of no known kind has nothing to trace or
\* to store.)
C20_CachePerKey ==
    [][r_res'.name # NoName =>
        /\ (r_res'.withCache /\ r_cache[CalledFor].set) =>
            /\ r_res'.ret = r_cache[CalledFor].ret
            /\ r_res'.traces = 0
            /\ r_cache' = r_cache
        /\ (~r_res'.withCache /\ elementType(r_res'.name) # "0") =>
            /\ r_res'.traces >= 1
            /\ r_cache'[CalledFor] = [set |-> TRUE, ret |-> r_res'.ret]
        /\ elementType(r_res'.name) = "0" =>
            /\ r_res'.ret = <<>>
            /\ r_res'.traces = 0
        /\ \A k \in DOMAIN r_cache :
            k # CalledFor => r_cache'[k] = r_cache[k]]_vars

\* a call with withCache was answered from the entry of its sameType, while
\* the entry of the other sameType holds another list
C20_AnsweredFromCache ==
    /\ r_res.name = "Fq"
    /\ r_res.withCache
    /\ r_res.traces = 0
    /\ r_res.ret # <<>>
    /\ r_cache[<<"Fq", ~r_res.sameType>>].set
    /\ r_cache[<<"Fq", ~r_res.sameType>>].ret # r_res.ret

\* the cache key of the query made by this step
QueriedKey == <<Queried, t_res'.sub>>

\* this step is a call of _getTopoShape
IsQuery == t_res'.path # "none"

\* C21: once (object, subname) has a shape in the cache, every query for that
\* key returns an equal shape, runs no shape computation and writes nothing
\* to the cache, as long as the entry is not invalidated.
C21_CachedIsServed ==
    [][(IsQuery /\ t_cache[QueriedKey] # NullShape) =>
        /\ t_res'.ret = Returned(t_cache[QueriedKey], t_res'.noElementMap)
        /\ ~t_res'.computed
        /\ t_res'.writes = <<>>
        /\ t_cache' = t_cache]_vars

\* a query for a key that held a shape did not read it and wrote the key
\* again
C21_WrittenAgain ==
    /\ t_res.held
    /\ t_res.path = "owner hit"
    /\ Len(t_res.writes) = 1
    /\ t_res.writes[1].key = <<Queried, t_res.sub>>
    /\ ~canCache(t_in, Queried)

\* the shapes the last call wrote under the key it was asked for
WrittenForKey ==
    { t_res.writes[k].shape : k \in { j \in 1 .. Len(t_res.writes) :
                                        t_res.writes[j].key = <<Queried, t_res.sub>> } }

\* the last call was for a sub-object, came as far as a shape of it, and obj
\* may be cached
SubObjectServed ==
    /\ OwnerOf(t_res.sub) = Child
    /\ t_res.path \in {"python", "owner hit", "linked", "compound"}
    /\ canCache(t_in, Queried)

\* C22: a query for a sub-object writes the cache under (object, subname)
\* exactly when the owner is of another document or mat has scale; what it
\* writes is the shape with mat applied, re-tagged for obj across documents;
\* when neither holds nothing is written under that key.
C22_WritesWhenCrossOrScaled ==
    SubObjectServed =>
        /\ (WrittenForKey # {}) = (t_in.ownerDoc # HomeDoc \/ t_in.matScale)
        /\ \A w \in WrittenForKey :
            /\ w.mat
            /\ (t_in.ownerDoc # HomeDoc /\ t_res.path # "python")
                => (w.tag = Queried /\ w.hasher = HomeDoc)

\* the owner is of the document of obj and mat has no scale, and the shape
\* taken from the owner's cache entry was written under (obj, subname)
C22_WrittenUnscaled ==
    /\ SubObjectServed
    /\ t_res.path = "owner hit"
    /\ t_in.ownerDoc = HomeDoc
    /\ ~t_in.matScale
    /\ WrittenForKey # {}

\* C23: while a selection gate is active, an operation that adds to the
\* selection list (addSelection with one sub-name, addSelection with a list of
\* sub-names, setSelection) adds only entries the gate allows.
C23_GateKeepsOut ==
    (g_gate # NoGate /\ g_res.op \in {"addSelection", "addSelectionList", "setSelection"})
        => \A i \in 1..Len(g_res.added) : GateAllows(g_gate, g_res.added[i])

\* addSelection with a list of sub-names has added an entry the active gate
\* does not allow
C23_ListAddsUnallowed ==
    /\ g_gate # NoGate
    /\ g_res.op = "addSelectionList"
    /\ \E i \in 1..Len(g_res.added) : ~GateAllows(g_gate, g_res.added[i])

\* C24: from a successful setPreselect(doc, object, sub) until the next
\* rmvPreselect or setPreselect, getPreselection reports that document, object
\* and sub-element; after rmvPreselect it reports no preselected object.
C24_PreselectionReported == getPreselection = g_pre

\* setPreselect has succeeded and getPreselection reports no object
C24_SetButNotReported ==
    /\ g_res.op = "setPreselect"
    /\ g_res.ret = <<TRUE>>
    /\ g_pre = g_res.args[1]
    /\ getPreselection = NoPreselection

\* the entries of _SelList that qualify for the document asked for
QualifyingAt(pDocName, resolve) ==
    { i \in 1..Len(g_sel) :
        /\ getObjectOfType(g_sel[i], resolve).obj # "null"
        /\ pDocName = "*" \/ DocumentOf(PointerOf(g_sel[i])) = pDocName }

\* the distinct selections among them: with resolve, entries that resolve to
\* the same object and sub-element are one selection
DistinctSelections(pDocName, resolve) ==
    IF resolve = 0
      THEN { <<i, getObjectOfType(g_sel[i], resolve)>> : i \in QualifyingAt(pDocName, resolve) }
      ELSE { <<0, getObjectOfType(g_sel[i], resolve)>> : i \in QualifyingAt(pDocName, resolve) }

\* C25: getSelection with single = true returns exactly one entry, the one
\* qualifying selection, when exactly one distinct selection (after the
\* de-duplication of resolve) qualifies for the document asked for, and the
\* empty list when none or more than one does.
C25_SingleOrNone ==
    (g_res.op = "getSelection" /\ g_res.args[3]) =>
        LET distinct == DistinctSelections(g_res.args[1], g_res.args[2])
        IN  IF Cardinality(distinct) = 1
              THEN /\ Len(g_res.ret) = 1
                   /\ \E d \in distinct :
                        /\ g_res.ret[1].FeatName = d[2].obj
                        /\ g_res.ret[1].SubName = d[2].sub
              ELSE g_res.ret = <<>>

\* two entries that resolve to the same element were returned as the one
\* selection
C25_OneAfterDeduplication ==
    /\ g_res.op = "getSelection" /\ g_res.args[3]
    /\ Cardinality(QualifyingAt(g_res.args[1], g_res.args[2])) >= 2
    /\ Len(g_res.ret) = 1

\* C26: Feature::registerElementCache(prefix, nullptr) returns for every
\* content of the prefix registry, also when the first registered entry has
\* another prefix.
C26_UnregisterReturns == e_res.op = "unregister" => e_res.outcome = "returned"

\* the call met a first entry of another prefix and never left its loop
C26_LoopsAtOtherPrefix ==
    /\ e_res.op = "unregister"
    /\ e_res.outcome = "loops"
    /\ e_registry # <<>>
    /\ e_registry[1] # e_res.prefix

\* whether a key starts with a registered prefix
HasRegisteredPrefix(key) ==
    \E i \in 1..Len(e_registry) : starts_with(key, e_registry[i])

\* C27: after onBeforeChange for the Shape property, every cache entry whose
\* key starts with no registered prefix holds a sub-shape of the shape that was
\* current just before this change and has searched = false, whether or not
\* prefixes are registered.
C27_OnlyFreshSnapshots ==
    (e_res.op = "onBeforeChange" /\ e_res.prop = ShapeProp) =>
        \A k \in CachedKeys(e_cache) :
            ~HasRegisteredPrefix(k) =>
                /\ e_cache[k].shape \in {<<ShapeProp, e_res.before>>, NullSubShape}
                /\ ~e_cache[k].searched

\* with a prefix registered, an entry taken from an earlier shape outlived the
\* change of Shape
C27_StaleSnapshotKept ==
    /\ e_res.op = "onBeforeChange" /\ e_res.prop = ShapeProp
    /\ e_registry # <<>>
    /\ \E k \in CachedKeys(e_cache) :
            /\ ~HasRegisteredPrefix(k)
            /\ e_cache[k].shape[1] = ShapeProp
            /\ e_cache[k].shape[2] < e_res.before

\* the name entries collected for higher element h, with the names
NameEntries(h) == Collect(c_lower, SubLowers(c_lower, h), <<>>, <<>>, 0)

\* C28: in the synthesis of getExportElementName every NameEntry holds the
\* position of its element's name in the collected name list, so that the
\* re-ordering reads names[v.first] inside the list and never crashes on it.
C28_EntryIndexesItsName ==
    /\ c_pc # "crashed"
    /\ \A h \in Higher :
        (LowerKind(c_kind) # "Shape" /\ Len(NameEntries(h).names) >= MaxLowerTopoNames)
            => \A j \in 1 .. Len(NameEntries(h).indices) :
                    NameEntries(h).indices[j].first = j - 1

\* a call read names[v.first] behind the end of the list and crashed
C28_ReadBehindNames ==
    /\ c_pc = "crashed"
    /\ \E h \in Higher :
        /\ Len(NameEntries(h).names) >= MaxLowerTopoNames
        /\ \E j \in 1 .. Len(NameEntries(h).indices) :
                NameEntries(h).indices[j].first >= Len(NameEntries(h).names)

\* C29: a call with noElementMap = true that returns a non-null shape returns
\* it without element map, with Tag 0 and without hasher, on every return path.
C29_NoMapWhenAsked ==
    (t_res.path # "none" /\ t_res.noElementMap /\ t_res.ret # NullShape)
        => (t_res.ret.tag = 0 /\ t_res.ret.hasher = 0 /\ ~t_res.ret.map)

\* a datum shape came back with the owner's tag although noElementMap was set
C29_DatumKeepsTag ==
    /\ t_res.path = "datum"
    /\ t_res.noElementMap
    /\ t_res.ret # NullShape
    /\ t_res.ret.tag # 0

\* C30: a call writes a cache entry for an object only if caching is
\* permitted for that object.
C30_WritesOnlyPermitted ==
    \A i \in 1 .. Len(t_res.writes) : canCache(t_in, t_res.writes[i].key[1])

\* an entry was written for the queried object, for which caching is not
\* permitted, after the permission check made for its owner
C30_WrittenOnOwnersPermission ==
    /\ ~canCache(t_in, Queried)
    /\ canCache(t_in, Child)
    /\ \E i \in 1 .. Len(t_res.writes) : t_res.writes[i].key[1] = Queried

\* whether searchElementCache has a non-null snapshot for the element
SnapshotKnown(element) ==
    /\ element # <<>>
    /\ element \in DOMAIN e_cache
    /\ e_cache[element] # NoSnapshot
    /\ e_cache[element].shape # NullSubShape

\* C31: a call of searchElementCache for an element with a snapshot not yet
\* searched runs the search with the call's options and stores the names; a
\* call for an element already searched returns the stored names, runs no
\* search and leaves the cache alone whatever its options; a call for the
\* empty name, an unknown element or a null snapshot returns the empty list
\* and runs no search.
C31_SearchedOnce ==
    [][e_res'.op = "search" =>
        IF ~SnapshotKnown(e_res'.prefix)
          THEN e_res'.ret = <<>> /\ ~e_res'.ran /\ e_cache' = e_cache
        ELSE IF e_cache[e_res'.prefix].searched
          THEN /\ e_res'.ret = e_cache[e_res'.prefix].names
               /\ ~e_res'.ran
               /\ e_cache' = e_cache
        ELSE /\ e_res'.ran
             /\ e_res'.ret = SearchedNames(e_registry, e_shape, e_res'.prefix,
                                            e_cache[e_res'.prefix].shape, e_res'.options)
             /\ e_cache'[e_res'.prefix].searched
             /\ e_cache'[e_res'.prefix].names = e_res'.ret]_vars

\* a later call got the stored names, which are not what a search with its
\* own options gives
C31_StoredNamesReturned ==
    /\ e_res.op = "search"
    /\ ~e_res.ran
    /\ SnapshotKnown(e_res.prefix)
    /\ e_res.ret = e_cache[e_res.prefix].names
    /\ e_res.ret # SearchedNames(e_registry, e_shape, e_res.prefix,
                                 e_cache[e_res.prefix].shape, e_res.options)

\* C32: when a Standard_Failure reaches Feature::recompute, recompute returns
\* an error result whose message is the kernel's message, or "Unknown OCC
\* exception" when that is empty; the exception does not leave recompute and
\* the message of that result is not empty.
C32_KernelFailureReported ==
    (x_res.op = "recompute" /\ x_res.run.step = "edgesThrow") =>
        /\ x_res.ret.kind = "error"
        /\ x_res.ret.Why = (IF x_res.run.msg = "" THEN "Unknown OCC exception"
                            ELSE x_res.run.msg)
        /\ x_res.ret.Why # ""

\* a kernel exception without message was reported as unknown
C32_EmptyMessageReplaced ==
    /\ x_res.op = "recompute"
    /\ x_res.run = [step |-> "edgesThrow", msg |-> ""]
    /\ x_res.ret = ExecReturn("Unknown OCC exception")

\* C35: when Chamfer::execute returns an error result, the Shape property is
\* as it was before the call.
C35_ErrorLeavesShape ==
    (x_res.op = "execute" /\ x_res.ret.kind = "error") => x_obj.Shape = x_res.before

\* execute stored the invalid shape and returned the error
C35_InvalidShapeStored ==
    /\ x_res.op = "execute"
    /\ x_res.ret = ExecReturn("Resulting shape is invalid")
    /\ x_obj.Shape # x_res.before
    /\ ~x_obj.Shape.valid

\* C33: an invocation nested at most 10 deep calls the callbacks registered
\* for the command and then the callbacks registered with the empty name, up
\* to the first one that answers false, and no other callback; it returns
\* false exactly when a called callback answered false, whether or not a
\* callback is registered for the command.
C33_CallbacksCalled ==
    (x_res.op = "invoke" /\ x_res.depth < MaxInvokeCount) =>
        LET due == x_obj.CallbackMap[x_res.cmd] \o x_obj.CallbackMap[""]
        IN  /\ x_res.called = CalledOf(due)
            /\ x_res.ret = ~Vetoed(due)

\* a command without callback of its own was invoked and the vetoing
\* callback registered for every command was not called
C33_WildcardSkipped ==
    /\ x_res.op = "invoke"
    /\ x_res.depth = 0
    /\ x_obj.CallbackMap[x_res.cmd] = <<>>
    /\ Vetoed(x_obj.CallbackMap[""])
    /\ x_res.called = <<>>
    /\ x_res.ret

\* C34: onUpdateElementReference leaves EdgeLinks as it was and leaves the
\* User3 flag of Edges cleared, and for EdgeLinks itself it writes to Edges
\* the edge ids read from the sub-names; a change of Edges or Base made while
\* the document is not restoring leaves EdgeLinks empty when Base is unset or
\* Edges is empty, and otherwise pointing to Base with the sub-name
\* "Edge<edgeid>" for each entry of Edges, in order.
C34_LinksFollowEdges ==
    /\ x_res.op = "update" =>
          /\ x_obj.EdgeLinks = x_res.before
          /\ ~x_obj.User3
          /\ x_res.prop = "EdgeLinks" =>
                x_obj.Edges = UpdatedValues(x_res.edges, x_res.before.subs)
    /\ (x_res.op = "set" /\ x_res.prop \in {"Edges", "Base"} /\ ~x_res.restoring) =>
          x_obj.EdgeLinks =
              IF x_obj.Base = 0 \/ x_obj.Edges = <<>> THEN NoLink
              ELSE [obj |-> x_obj.Base,
                    subs |-> [i \in 1 .. Len(x_obj.Edges) |-> <<"Edge", x_obj.Edges[i]>>]]

\* the edge ids were rewritten outside a restore while EdgeLinks, left alone,
\* is not what syncEdgeLink would write
C34_RewrittenWithoutSync ==
    /\ x_res.op = "update"
    /\ x_res.prop = "EdgeLinks"
    /\ ~x_res.restoring
    /\ x_obj.Edges # x_res.edges
    /\ x_obj.EdgeLinks = x_res.before
    /\ syncEdgeLink(x_obj).EdgeLinks # x_obj.EdgeLinks

=============================================================================
